---------------------------- MODULE Spec2Model ----------------------------
(***************************************************************************)
(* Session assembly and scoring pipeline of cc_evaluator.                  *)
(*                                                                         *)
(*   log records --parse_session_file--> SessionData                       *)
(*               --evaluate_session----> six EvaluationResults             *)
(*               --generate_report-----> EvaluationReport.total_score      *)
(*                                                                         *)
(* Conventions of the model                                                *)
(*   - a Python str is a sequence of characters; an ASCII character is the *)
(*     one-character string, a CJK character is "u" followed by its code   *)
(*     point in hexadecimal ("u8bc4");                                     *)
(*   - a datetime is a whole number of seconds;                            *)
(*   - a Python float is an exact rational <<n, d>> in lowest terms with   *)
(*     d > 0; math.exp is the one inexact operation (see ExpNegTenths);    *)
(*   - Optional[x] is <<>> (None) or <<x>>.                                *)
(***************************************************************************)
EXTENDS Integers, Sequences, FiniteSets, TLC

VARIABLES
    session_file,     \* whether the session file exists and can be opened
    records,          \* the lines of the session file, as json.loads takes them
    agent_records,    \* the lines of the agent-*.jsonl file of the project directory
    include_agents,   \* parse_session_file's include_agents argument
    scoring_config,   \* the module-level dict SCORING_CONFIG
    session,          \* the SessionData returned by parse_session_file
    first_completed,  \* evaluate_session's first_completed argument
    completion_rate,  \* evaluate_session's completion_rate argument
    calls,            \* the overrides of the process's evaluate_session calls, oldest first
    results,          \* the list returned by evaluate_session
    total_score,      \* EvaluationReport.total_score
    pad_args,         \* the arguments (text, width, align) of a call of pad_text
    pad_result,       \* what that call returned, none before it
    report,           \* the texts of the EvaluationReport handed to ScoreReporter
    table,            \* what ScoreReporter.to_table returned, none before it
    pc                \* position in cmd_evaluate

vars == <<session_file, records, agent_records, include_agents, scoring_config, session, first_completed,
          completion_rate, calls, results, total_score, pad_args, pad_result, report, table,
          pc>>

\* ------------------------------------------------------------------ bounds

\* The longest session file read, in records, under each specification.
MaxRecords == 4
MaxTimedRecords == 3
MaxVolumeRecords == 3

\* The longest result list handed to generate_report under SpecReport.
MaxResults == 2

\* The longest session file read under SpecAssembly, in lines.
MaxAssemblyRecords == 3

\* The longest session file read under SpecFrame, in lines.
MaxFrameRecords == 3

\* The longest session file read under SpecPrompts, in lines.
MaxPromptRecords == 3

\* The longest session file read under SpecTools, in lines.
MaxToolRecords == 3

\* The longest session file and the longest agent file read under
\* SpecAgents, in lines.
MaxPrimaryRecords == 2
MaxAgentRecords == 2

\* The longest session file read under SpecFile, in lines.
MaxFileRecords == 3

\* The longest session file, in lines, and the most evaluate_session calls
\* of one process under SpecRuns.
MaxRunRecords == 1
MaxCalls == 3

\* The longest session file and the longest agent file read under
\* SpecShared, in lines.
MaxSharedRecords == 2

\* The longest session file read under SpecSidechain, in lines.
MaxSidechainRecords == 3

\* The longest text and the widest column handed to pad_text under SpecPad.
MaxTextLen == 3
MaxPadWidth == 4

\* The longest session file read under SpecContent, in lines.
MaxContentRecords == 3

\* ------------------------------------------------------------- arithmetic

Abs(n) == IF n < 0 THEN -n ELSE n

RECURSIVE Gcd(_, _)
Gcd(a, b) == IF b = 0 THEN a ELSE Gcd(b, a % b)

\* The rational n/d in lowest terms, denominator positive.
Rat(n, d) ==
    LET s == IF d < 0 THEN -1 ELSE 1
        g == Gcd(Abs(n), Abs(d))
    IN  <<(s * n) \div g, (s * d) \div g>>

Zero == Rat(0, 1)
One == Rat(1, 1)
FromInt(n) == Rat(n, 1)

RAdd(x, y) ==
    LET g == Gcd(x[2], y[2])
    IN  Rat(x[1] * (y[2] \div g) + y[1] * (x[2] \div g), (x[2] \div g) * y[2])

RSub(x, y) == RAdd(x, <<-y[1], y[2]>>)
RMul(x, y) == Rat(x[1] * y[1], x[2] * y[2])
RDiv(x, y) == Rat(x[1] * y[2], x[2] * y[1])
RLe(x, y) == x[1] * y[2] <= y[1] * x[2]
RLt(x, y) == x[1] * y[2] < y[1] * x[2]

\* Python's max(a, b) and min(a, b) on numbers.
RMax(a, b) == IF RLt(a, b) THEN b ELSE a
RMin(a, b) == IF RLt(b, a) THEN b ELSE a

RECURSIVE RSum(_)
RSum(s) == IF s = <<>> THEN Zero ELSE RAdd(Head(s), RSum(Tail(s)))

\* math.exp(-n/10) to four decimal places, computed as (e^(-1/10))^n with
\* e^(-1/10) ~ 0.9048 and every product rounded down.  The value is in
\* ten-thousandths.
RECURSIVE ExpNegTenths(_)
ExpNegTenths(n) == IF n <= 0 THEN 10000 ELSE (ExpNegTenths(n - 1) * 9048) \div 10000

\* ------------------------------------------------------------------- text

None == <<>>
Some(x) == <<x>>

\* One character of str.lower(): the ASCII letters; other characters of the
\* model's texts have no lower case.
LowerChar(c) ==
    CASE c = "A" -> "a" [] c = "B" -> "b" [] c = "C" -> "c" [] c = "D" -> "d"
      [] c = "E" -> "e" [] c = "F" -> "f" [] c = "G" -> "g" [] c = "H" -> "h"
      [] c = "I" -> "i" [] c = "J" -> "j" [] c = "K" -> "k" [] c = "L" -> "l"
      [] c = "M" -> "m" [] c = "N" -> "n" [] c = "O" -> "o" [] c = "P" -> "p"
      [] c = "Q" -> "q" [] c = "R" -> "r" [] c = "S" -> "s" [] c = "T" -> "t"
      [] c = "U" -> "u" [] c = "V" -> "v" [] c = "W" -> "w" [] c = "X" -> "x"
      [] c = "Y" -> "y" [] c = "Z" -> "z"
      [] OTHER -> c

\* str.lower()
Lower(s) == [i \in 1..Len(s) |-> LowerChar(s[i])]

\* `sub in s` for two strs.
Contains(s, sub) ==
    \E i \in 0..(Len(s) - Len(sub)) : SubSeq(s, i + 1, i + Len(sub)) = sub

\* ---------------------------------------------------------------- config

FILTER_KEYWORDS == <<
    <<"u8bc4", "u5206">>, <<"u8bc4", "u4f30">>, <<"u6253", "u5206">>,
    <<"s", "c", "o", "r", "e">>, <<"e", "v", "a", "l", "u", "a", "t", "e">>,
    <<"e", "v", "a", "l">>, <<"c", "c", "-", "e", "v", "a", "l">>,
    <<"u6253", "u4e2a", "u5206">> >>

MODIFY_KEYWORDS == <<
    <<"u4fee", "u6539">>, <<"b", "u", "g">>, <<"u9519", "u8bef">>,
    <<"f", "i", "x">>, <<"c", "h", "a", "n", "g", "e">>, <<"u6539">>,
    <<"u4e0d", "u5bf9">>, <<"u95ee", "u9898">>, <<"e", "r", "r", "o", "r">>,
    <<"w", "r", "o", "n", "g">> >>

\* SCORING_CONFIG; decay_rate 0.1 is kept in tenths.  There is no
\* 'task_completion' entry: SCORING_CONFIG.get('task_completion', {}) is {}.
SCORING_CONFIG == [
    first_completion |-> [weight |-> One, modify_keywords |-> MODIFY_KEYWORDS],
    first_time       |-> [weight |-> One, threshold |-> 5, decay_rate_tenths |-> 1,
                          max_time |-> 60],
    prompt_count     |-> [weight |-> One, optimal |-> 1, max_count |-> 10],
    total_time       |-> [weight |-> One, max_time |-> 60],
    code_size        |-> [weight |-> One, max_lines |-> 500] ]

\* BaseEvaluator.weight when the config has no 'weight'.
DefaultWeight == One


\* ---------------------------------------------------------------- parser

\* parse_timestamp: a record's timestamp is of kind "iso" for a well-formed
\* ISO string (sec is its instant, aware whether it carries a UTC offset),
\* "missing" for an absent or empty one, "invalid" for a str that
\* fromisoformat rejects, and "number" for a non-zero JSON number.
parse_timestamp(ts) == IF ts.kind = "iso" THEN Some(ts.sec) ELSE None

\* parse_timestamp on a non-zero number: ts_str.replace raises AttributeError,
\* which the except clause (ValueError, TypeError) does not catch.
ParseTimestampRaises(ts) == ts.kind = "number"

CodeTools == {"Write", "Edit", "search_replace"}

\* Python's `a or b` on two strs.
StrOr(a, b) == IF a # <<>> THEN a ELSE b

\* len(content.split('\n'))
SplitLines(content) == 1 + Cardinality({i \in 1..Len(content) : content[i] = "\n"})

\* parse_tool_use on a part of type tool_use.  A key missing from `input` is
\* the empty str, which is what input_data.get(key, '') makes of it.
parse_tool_use(item) ==
    IF item.name \in CodeTools
    THEN LET content == StrOr(item.input.content, item.input.new_string)
         IN  [name      |-> item.name,
              file_path |-> Some(item.input.file_path),
              content   |-> Some(content),
              lines     |-> IF content # <<>> THEN SplitLines(content) ELSE 0]
    ELSE [name |-> item.name, file_path |-> None, content |-> None, lines |-> 0]

\* '\n'.join(texts)
RECURSIVE Join(_)
Join(texts) ==
    IF Len(texts) = 1 THEN texts[1]
    ELSE texts[1] \o <<"\n">> \o Join(Tail(texts))

\* f"[tool_result: {str(content)[:50]}]"
ToolResultText(content) ==
    <<"[", "t", "o", "o", "l", "_", "r", "e", "s", "u", "l", "t", ":", " ">>
        \o SubSeq(content, 1, IF Len(content) < 50 THEN Len(content) ELSE 50)
        \o <<"]">>

\* The loop of parse_message_content over a list content: the texts collected.
RECURSIVE PartTexts(_)
PartTexts(parts) ==
    IF parts = <<>> THEN <<>>
    ELSE LET item == Head(parts)
             here == CASE item.type = "text" -> <<item.text>>
                       [] item.type = "tool_result" -> <<ToolResultText(item.content)>>
                       [] OTHER -> <<>>
         IN  here \o PartTexts(Tail(parts))

\* The same loop: the tool uses collected.
RECURSIVE PartToolUses(_)
PartToolUses(parts) ==
    IF parts = <<>> THEN <<>>
    ELSE LET item == Head(parts)
         IN  (IF item.type = "tool_use" THEN <<parse_tool_use(item)>> ELSE <<>>)
                 \o PartToolUses(Tail(parts))

\* Mutant of parse_message_content: is_tool_result is set only when every
\* part of the content is a tool_result.
parse_message_content_OnlyToolResults(msg_data) ==
    LET content == msg_data.content IN
    CASE content.kind = "str" ->
            [text_content |-> Some(content.text), tool_uses |-> <<>>,
             is_tool_result |-> FALSE]
      [] content.kind = "list" ->
            LET texts == PartTexts(content.parts)
            IN  [text_content   |-> IF texts # <<>> THEN Some(Join(texts)) ELSE None,
                 tool_uses      |-> PartToolUses(content.parts),
                 is_tool_result |-> /\ content.parts # <<>>
                                    /\ \A i \in 1..Len(content.parts) :
                                           content.parts[i].type = "tool_result"]
      [] OTHER ->
            [text_content |-> None, tool_uses |-> <<>>, is_tool_result |-> FALSE]

\* parse_message_content: (text_content, tool_uses, is_tool_result).  The
\* content is [kind |-> "str", text |-> s], [kind |-> "list", parts |-> p]
\* or of kind "absent".
parse_message_content(msg_data) ==
    LET content == msg_data.content IN
    CASE content.kind = "str" ->
            [text_content |-> Some(content.text), tool_uses |-> <<>>,
             is_tool_result |-> FALSE]
      [] content.kind = "list" ->
            LET texts == PartTexts(content.parts)
            IN  [text_content   |-> IF texts # <<>> THEN Some(Join(texts)) ELSE None,
                 tool_uses      |-> PartToolUses(content.parts),
                 is_tool_result |-> \E i \in 1..Len(content.parts) :
                                        content.parts[i].type = "tool_result"]
      [] OTHER ->
            [text_content |-> None, tool_uses |-> <<>>, is_tool_result |-> FALSE]

\* ToolType[name.upper()] for the three names that reach it.
ToolTypeOf(name) ==
    CASE name = "Write" -> "WRITE"
      [] name = "Edit" -> "EDIT"
      [] name = "search_replace" -> "SEARCH_REPLACE"
      [] OTHER -> "OTHER"

\* Mutant of CodeOpsOf: a tool use without a file path gives a code
\* operation too.
RECURSIVE CodeOpsOf_AnyPath(_, _)
CodeOpsOf_AnyPath(tool_uses, timestamp) ==
    IF tool_uses = <<>> THEN <<>>
    ELSE LET tu == Head(tool_uses)
             op == IF tu.name \in CodeTools
                   THEN << [tool_type |-> ToolTypeOf(tu.name),
                            file_path |-> tu.file_path[1],
                            content   |-> IF tu.content # None THEN tu.content[1] ELSE <<>>,
                            lines     |-> tu.lines,
                            timestamp |-> timestamp] >>
                   ELSE <<>>
         IN  op \o CodeOpsOf_AnyPath(Tail(tool_uses), timestamp)

\* The code operations the loop body of parse_session_file appends for one
\* message's tool uses.
RECURSIVE CodeOpsOf(_, _)
CodeOpsOf(tool_uses, timestamp) ==
    IF tool_uses = <<>> THEN <<>>
    ELSE LET tu == Head(tool_uses)
             op == IF tu.name \in CodeTools /\ tu.file_path # None /\ tu.file_path[1] # <<>>
                   THEN << [tool_type |-> ToolTypeOf(tu.name),
                            file_path |-> tu.file_path[1],
                            content   |-> IF tu.content # None THEN tu.content[1] ELSE <<>>,
                            lines     |-> tu.lines,
                            timestamp |-> timestamp] >>
                   ELSE <<>>
         IN  op \o CodeOpsOf(Tail(tool_uses), timestamp)

\* Mutant of Retained: the two checks of the record's kind are missing, and a
\* record of any kind with a timestamp becomes a message.
Retained_AnyKind(record) == parse_timestamp(record.timestamp) # None

\* Whether the loop of parse_session_file keeps a record.
Retained(record) ==
    /\ record.type \in {"user", "assistant"}
    /\ parse_timestamp(record.timestamp) # None

\* The Message built from a retained record.
MessageOf(record) ==
    LET parsed == parse_message_content(record.message)
    IN  [uuid           |-> record.uuid,
         msg_type       |-> IF record.type = "user" THEN "USER" ELSE "ASSISTANT",
         timestamp      |-> parse_timestamp(record.timestamp)[1],
         content        |-> parsed.text_content,
         tool_uses      |-> parsed.tool_uses,
         is_tool_result |-> parsed.is_tool_result,
         is_sidechain   |-> record.isSidechain]

\* Mutant of MessagesOf: a record whose uuid an earlier retained record
\* carries gives no message.
MessagesOf_DedupByUuid(recs) ==
    LET first == SelectSeq([i \in 1..Len(recs) |-> [at |-> i, record |-> recs[i]]],
                           LAMBDA e :
                               /\ Retained(e.record)
                               /\ ~\E j \in 1..(e.at - 1) :
                                      /\ Retained(recs[j])
                                      /\ recs[j].uuid # ""
                                      /\ recs[j].uuid = e.record.uuid)
    IN  [i \in 1..Len(first) |-> MessageOf(first[i].record)]

\* session.messages after the loop, before sorting.
RECURSIVE MessagesOf(_)
MessagesOf(recs) ==
    IF recs = <<>> THEN <<>>
    ELSE (IF Retained(Head(recs)) THEN <<MessageOf(Head(recs))>> ELSE <<>>)
             \o MessagesOf(Tail(recs))

\* Mutant of CodeOperationsOf: the tool uses of a sidechain record give no
\* code operation.
RECURSIVE CodeOperationsOf_MainChainOnly(_)
CodeOperationsOf_MainChainOnly(recs) ==
    IF recs = <<>> THEN <<>>
    ELSE (IF Retained(Head(recs)) /\ ~Head(recs).isSidechain
          THEN LET m == MessageOf(Head(recs)) IN CodeOpsOf(m.tool_uses, m.timestamp)
          ELSE <<>>)
             \o CodeOperationsOf_MainChainOnly(Tail(recs))

\* session.code_operations after the loop, before sorting.
RECURSIVE CodeOperationsOf(_)
CodeOperationsOf(recs) ==
    IF recs = <<>> THEN <<>>
    ELSE (IF Retained(Head(recs))
          THEN LET m == MessageOf(Head(recs)) IN CodeOpsOf(m.tool_uses, m.timestamp)
          ELSE <<>>)
             \o CodeOperationsOf(Tail(recs))

\* Whether the loop body of parse_session_file raises on a record: record.get
\* on a JSON value that is not an object, parse_timestamp on a number, or
\* parse_message_content's msg_data.get on a `message` that is not an object
\* (reached only past the timestamp check).  All three are AttributeError.
RecordRaises(record) ==
    \/ record.json = "value"
    \/ /\ record.type \in {"user", "assistant"}
       /\ ParseTimestampRaises(record.timestamp)
    \/ /\ Retained(record)
       /\ ~record.message.is_dict

\* Whether the two sorts of parse_session_file raise: comparing a datetime
\* that carries a UTC offset with one that does not is a TypeError, and a
\* sort of messages of both sorts has to compare two of them.
SortRaises(recs) ==
    \E i, j \in 1..Len(recs) :
        /\ Retained(recs[i])
        /\ Retained(recs[j])
        /\ recs[i].timestamp.aware # recs[j].timestamp.aware

\* Mutant of InsertByTimestamp: x goes before the elements of equal
\* timestamp, so the sort is ascending and not stable.
RECURSIVE InsertByTimestamp_BeforeEqual(_, _)
InsertByTimestamp_BeforeEqual(sorted, x) ==
    IF sorted = <<>> THEN <<x>>
    ELSE IF Head(sorted).timestamp < x.timestamp
         THEN <<Head(sorted)>> \o InsertByTimestamp_BeforeEqual(Tail(sorted), x)
         ELSE <<x>> \o sorted

\* list.sort(key=lambda x: x.timestamp): ascending and stable.  x goes after
\* every element whose timestamp is not greater.
RECURSIVE InsertByTimestamp(_, _)
InsertByTimestamp(sorted, x) ==
    IF sorted = <<>> THEN <<x>>
    ELSE IF Head(sorted).timestamp <= x.timestamp
         THEN <<Head(sorted)>> \o InsertByTimestamp(Tail(sorted), x)
         ELSE <<x>> \o sorted

\* Mutant of SortByTimestamp: the list is left in the order of appending.
SortByTimestamp_AppendOrder(s) == s

RECURSIVE SortByTimestamp(_)
SortByTimestamp(s) ==
    IF s = <<>> THEN <<>>
    ELSE InsertByTimestamp(SortByTimestamp(SubSeq(s, 1, Len(s) - 1)), s[Len(s)])

\* ----------------------------------------------------------- SessionData

\* Mutant of IsEvalPrompt: the content is not lower-cased before the search.
IsEvalPrompt_CaseSensitive(content, keywords) ==
    IF content = None \/ content[1] = <<>> THEN FALSE
    ELSE \E k \in 1..Len(keywords) : Contains(content[1], Lower(keywords[k]))

\* SessionData._is_eval_prompt
IsEvalPrompt(content, keywords) ==
    IF content = None \/ content[1] = <<>> THEN FALSE
    ELSE \E k \in 1..Len(keywords) : Contains(Lower(content[1]), Lower(keywords[k]))

\* m.content and 'warmup' in m.content.lower()
IsWarmup(content) ==
    /\ content # None
    /\ content[1] # <<>>
    /\ Contains(Lower(content[1]), <<"w", "a", "r", "m", "u", "p">>)

\* The condition of the user_prompts comprehension.
IsUserPrompt(m) ==
    /\ m.msg_type = "USER"
    /\ ~m.is_tool_result
    /\ ~m.is_sidechain
    /\ ~IsWarmup(m.content)
    /\ ~IsEvalPrompt(m.content, FILTER_KEYWORDS)

\* Mutant of IsAssistantResponse: sidechain replies are kept.
IsAssistantResponse_KeepsSidechain(m) == m.msg_type = "ASSISTANT"

\* The condition of the assistant_responses comprehension.
IsAssistantResponse(m) == m.msg_type = "ASSISTANT" /\ ~m.is_sidechain

\* min(m.timestamp for m in msgs), msgs not empty
MinTimestamp(msgs) ==
    CHOOSE t \in {msgs[i].timestamp : i \in 1..Len(msgs)} :
        \A i \in 1..Len(msgs) : t <= msgs[i].timestamp

\* sum(op.lines for op in ops)
RECURSIVE SumLines(_)
SumLines(ops) == IF ops = <<>> THEN 0 ELSE Head(ops).lines + SumLines(Tail(ops))

\* A SessionData as its constructor leaves it.
EmptySession ==
    [messages |-> <<>>, code_operations |-> <<>>, user_prompts |-> <<>>,
     assistant_responses |-> <<>>, first_user_ts |-> None,
     first_assistant_ts |-> None, total_lines |-> 0]

\* SessionData.compute_derived_data
compute_derived_data(s) ==
    LET user_prompts == SelectSeq(s.messages, IsUserPrompt)
        assistant_responses == SelectSeq(s.messages, IsAssistantResponse)
    IN  [s EXCEPT
            !.user_prompts = user_prompts,
            !.assistant_responses = assistant_responses,
            !.first_user_ts = IF user_prompts # <<>>
                              THEN Some(MinTimestamp(user_prompts)) ELSE @,
            !.first_assistant_ts = IF assistant_responses # <<>>
                                   THEN Some(MinTimestamp(assistant_responses)) ELSE @,
            !.total_lines = SumLines(s.code_operations)]

\* parse_jsonl_file: the values json.loads returns for the lines of a file;
\* a line that is not valid JSON is skipped.
IsJson(line) == line.json \in {"object", "value"}
parse_jsonl_file(lines) == SelectSeq(lines, IsJson)

\* parse_jsonl_file raises on a line whose bytes are not UTF-8: iterating
\* the file is a UnicodeDecodeError, which is neither the IOError nor the
\* JSONDecodeError the function catches.
ParseJsonlRaises(lines) == \E i \in 1..Len(lines) : lines[i].json = "undecodable"

\* find_agent_files on a directory with the one candidate file `agent`: the
\* file is kept when its first line is a JSON object whose sessionId is
\* session_id; an empty file and a first line that is not valid JSON are
\* skipped.
find_agent_files(agent, session_id) ==
    IF /\ agent # <<>>
       /\ agent[1].json = "object"
       /\ agent[1].sessionId = session_id
    THEN <<agent>> ELSE <<>>

\* find_agent_files raises when the first line is a JSON value that is not
\* an object (data.get is an AttributeError) and when its bytes are not
\* UTF-8 (readline is a UnicodeDecodeError): the except clause
\* (JSONDecodeError, IOError) catches neither.
FindAgentFilesRaises(agent) ==
    agent # <<>> /\ agent[1].json \in {"value", "undecodable"}

\* The list `records` of parse_session_file when its loop starts: the
\* records of the primary file, then those of the agent files found.
RECURSIVE ExtendWith(_, _)
ExtendWith(recs, files) ==
    IF files = <<>> THEN recs
    ELSE ExtendWith(recs \o parse_jsonl_file(Head(files)), Tail(files))

RecordsOf(lines, agent, session_id, with_agents) ==
    ExtendWith(parse_jsonl_file(lines),
               IF with_agents THEN find_agent_files(agent, session_id) ELSE <<>>)

\* Whether parse_session_file raises instead of returning.
ParseRaises(lines, agent, session_id, with_agents) ==
    \/ ParseJsonlRaises(lines)
    \/ with_agents /\ FindAgentFilesRaises(agent)
    \/ /\ with_agents
       /\ find_agent_files(agent, session_id) # <<>>
       /\ ParseJsonlRaises(agent)
    \/ LET recs == RecordsOf(lines, agent, session_id, with_agents)
       IN  \/ \E i \in 1..Len(recs) : RecordRaises(recs[i])
           \/ SortRaises(recs)

\* Mutant of parse_session_file: the derived fields are computed when the
\* loop ends, before the two lists are sorted.
parse_session_file_DerivedBeforeSort(recs) ==
    LET derived == compute_derived_data(
                       [EmptySession EXCEPT
                           !.messages = MessagesOf(recs),
                           !.code_operations = CodeOperationsOf(recs)])
    IN  [derived EXCEPT
            !.messages = SortByTimestamp(@),
            !.code_operations = SortByTimestamp(@)]

\* parse_session_file from the loop on, on the list `records`.
parse_session_file(recs) ==
    compute_derived_data(
        [EmptySession EXCEPT
            !.messages = SortByTimestamp(MessagesOf(recs)),
            !.code_operations = SortByTimestamp(CodeOperationsOf(recs))])

\* ------------------------------------------------------------ evaluators

\* dict.get(key, default)
Get(config, key, default) == IF key \in DOMAIN config THEN config[key] ELSE default

\* The dict {}.
EmptyDict == <<>>

\* What evaluate() leaves behind: the score it returns, _raw_value, _detail.
Outcome(score, raw_value, detail) ==
    [score |-> score, raw_value |-> raw_value, detail |-> detail]

\* BaseEvaluator.get_result
get_result(name, config, outcome) ==
    [name      |-> name,
     score     |-> outcome.score,
     weight    |-> Get(config, "weight", DefaultWeight),
     raw_value |-> outcome.raw_value,
     detail    |-> outcome.detail]

\* Mutant of CompletionEvaluate: every session of two or more rounds is
\* incomplete, without looking at the second prompt.
CompletionEvaluate_RoundCountOnly(s, config) ==
    IF Len(s.user_prompts) <= 1
    THEN Outcome(One, Some(TRUE), "single round")
    ELSE Outcome(Zero, Some(FALSE), "several rounds")

\* CompletionEvaluator.evaluate
CompletionEvaluate(s, config) ==
    LET prompt_count == Len(s.user_prompts)
        modify_keywords == Get(config, "modify_keywords", MODIFY_KEYWORDS)
        second_prompt == s.user_prompts[2]
        content == Lower(IF second_prompt.content # None THEN second_prompt.content[1]
                         ELSE <<>>)
    IN  IF prompt_count <= 1
        THEN Outcome(One, Some(TRUE), "single round")
        ELSE IF \E k \in 1..Len(modify_keywords) : Contains(content, Lower(modify_keywords[k]))
             THEN Outcome(Zero, Some(FALSE), "second round modifies")
             ELSE Outcome(One, Some(TRUE), "later rounds are new requests")

\* Mutant of FirstTimeEvaluate: the check for a non-positive time
\* difference is missing.
FirstTimeEvaluate_NoAnomalyCheck(s, config) ==
    LET threshold == Get(config, "threshold", 5)
        decay_rate_tenths == Get(config, "decay_rate_tenths", 1)
        max_time == Get(config, "max_time", 60)
        time_diff == s.first_assistant_ts[1] - s.first_user_ts[1]
        score == IF time_diff <= threshold THEN One
                 ELSE IF time_diff >= max_time THEN Zero
                 ELSE Rat(ExpNegTenths(decay_rate_tenths * (time_diff - threshold)), 10000)
    IN  IF s.first_user_ts = None \/ s.first_assistant_ts = None
        THEN Outcome(Zero, None, "no time data")
        ELSE Outcome(RMax(Zero, RMin(One, score)), Some(FromInt(time_diff)), "timed")

\* FirstTimeEvaluator.evaluate
FirstTimeEvaluate(s, config) ==
    LET threshold == Get(config, "threshold", 5)
        decay_rate_tenths == Get(config, "decay_rate_tenths", 1)
        max_time == Get(config, "max_time", 60)
        time_diff == s.first_assistant_ts[1] - s.first_user_ts[1]
        score == IF time_diff <= threshold THEN One
                 ELSE IF time_diff >= max_time THEN Zero
                 ELSE Rat(ExpNegTenths(decay_rate_tenths * (time_diff - threshold)), 10000)
    IN  IF s.first_user_ts = None \/ s.first_assistant_ts = None
        THEN Outcome(Zero, None, "no time data")
        ELSE IF time_diff <= 0
             THEN Outcome(Zero, Some(FromInt(time_diff)), "anomaly")
             ELSE Outcome(RMax(Zero, RMin(One, score)), Some(FromInt(time_diff)),
                          IF time_diff <= threshold THEN "full marks"
                          ELSE IF time_diff >= max_time THEN "timeout" ELSE "decayed")

\* Mutant of PromptCountEvaluate: the linear formula of the class docstring,
\* max(0, 1 - (count - optimal) / (max_count - optimal)).
PromptCountEvaluate_Linear(s, config) ==
    LET count == Len(s.user_prompts)
        optimal == Get(config, "optimal", 1)
        max_count == Get(config, "max_count", 10)
        score == IF count <= optimal THEN One
                 ELSE RMax(Zero, RSub(One, Rat(count - optimal, max_count - optimal)))
    IN  IF count <= 0
        THEN Outcome(Zero, Some(FromInt(count)), "no prompts")
        ELSE Outcome(RMax(Zero, RMin(One, score)), Some(FromInt(count)), "counted")

\* PromptCountEvaluator.evaluate
PromptCountEvaluate(s, config) ==
    LET count == Len(s.user_prompts)
        score == IF count <= 1 THEN One ELSE Rat(1, count)
    IN  IF count <= 0
        THEN Outcome(Zero, Some(FromInt(count)), "no prompts")
        ELSE Outcome(RMax(Zero, RMin(One, score)), Some(FromInt(count)), "counted")

\* Mutant of TotalTimeLoop: a gap of 120 seconds or more counts as 120
\* seconds instead of being left out.
RECURSIVE TotalTimeLoop_Clamped(_, _, _)
TotalTimeLoop_Clamped(msgs, last_ts, total_time) ==
    IF msgs = <<>> THEN total_time
    ELSE LET msg == Head(msgs)
             diff == msg.timestamp - last_ts[1]
             counted == msg.msg_type = "ASSISTANT" /\ last_ts # None /\ 0 < diff
         IN  TotalTimeLoop_Clamped(Tail(msgs), Some(msg.timestamp),
                 IF counted THEN total_time + (IF diff < 120 THEN diff ELSE 120)
                 ELSE total_time)

\* The loop of TotalTimeEvaluator.evaluate over sorted_messages: total_time
\* after the loop, from the given last_ts and total_time.
RECURSIVE TotalTimeLoop(_, _, _)
TotalTimeLoop(msgs, last_ts, total_time) ==
    IF msgs = <<>> THEN total_time
    ELSE LET msg == Head(msgs)
             diff == msg.timestamp - last_ts[1]
             counted == /\ msg.msg_type = "ASSISTANT"
                        /\ last_ts # None
                        /\ 0 < diff
                        /\ diff < 120
         IN  TotalTimeLoop(Tail(msgs), Some(msg.timestamp),
                           IF counted THEN total_time + diff ELSE total_time)

\* Mutant of TotalTimeEvaluate: full marks up to max_time and max_time/total
\* beyond it, also for a session without messages.
TotalTimeEvaluate_Reciprocal(s, config) ==
    LET max_time == Get(config, "max_time", 60)
        total_time == TotalTimeLoop(SortByTimestamp(s.messages), None, 0)
    IN  Outcome(IF total_time <= max_time THEN One ELSE Rat(max_time, total_time),
                Some(FromInt(total_time)), "timed")

\* Mutant of TotalTimeEvaluate: a session without messages is not told apart
\* from one whose reasoning time is zero.
TotalTimeEvaluate_EmptyIsFullMarks(s, config) ==
    LET max_time == Get(config, "max_time", 60)
        total_time == TotalTimeLoop(SortByTimestamp(s.messages), None, 0)
        score == IF total_time >= max_time THEN Zero
                 ELSE RSub(One, Rat(total_time, max_time))
    IN  IF total_time <= 0
        THEN Outcome(One, Some(FromInt(total_time)), "zero reasoning time")
        ELSE Outcome(RMax(Zero, RMin(One, score)), Some(FromInt(total_time)),
                     IF total_time >= max_time THEN "timeout" ELSE "timed")

\* TotalTimeEvaluator.evaluate
TotalTimeEvaluate(s, config) ==
    LET max_time == Get(config, "max_time", 60)
        sorted_messages == SortByTimestamp(s.messages)
        total_time == TotalTimeLoop(sorted_messages, None, 0)
        score == IF total_time >= max_time THEN Zero
                 ELSE RSub(One, Rat(total_time, max_time))
    IN  IF s.messages = <<>>
        THEN Outcome(Zero, Some(Zero), "no messages")
        ELSE IF total_time <= 0
             THEN Outcome(One, Some(FromInt(total_time)), "zero reasoning time")
             ELSE Outcome(RMax(Zero, RMin(One, score)), Some(FromInt(total_time)),
                          IF total_time >= max_time THEN "timeout" ELSE "timed")

\* Mutant of CodeSizeEvaluate: 1/total_lines, without the baseline.
CodeSizeEvaluate_NoBaseline(s, config) ==
    LET total_lines == s.total_lines
    IN  IF total_lines <= 0
        THEN Outcome(One, Some(FromInt(total_lines)), "no code")
        ELSE Outcome(Rat(1, total_lines), Some(FromInt(total_lines)), "sized")

\* CodeSizeEvaluator.evaluate
CodeSizeEvaluate(s, config) ==
    LET total_lines == s.total_lines
        baseline == Get(config, "baseline_lines", 100)
        effective_lines == IF baseline < total_lines THEN total_lines ELSE baseline
        score == Rat(baseline, effective_lines)
    IN  IF total_lines <= 0
        THEN Outcome(One, Some(FromInt(total_lines)), "no code")
        ELSE Outcome(RMax(Zero, RMin(One, score)), Some(FromInt(total_lines)), "sized")

\* Mutant of TaskCompletionEvaluate: the percentage is not clamped to 0..100.
TaskCompletionEvaluate_NoClamp(s, config) ==
    LET rate == Get(config, "completion_rate", FromInt(100))
    IN  Outcome(RDiv(rate, FromInt(100)), Some(rate), "user rating")

\* TaskCompletionEvaluator.evaluate
TaskCompletionEvaluate(s, config) ==
    LET rate == RMax(Zero, RMin(FromInt(100), Get(config, "completion_rate", FromInt(100))))
    IN  Outcome(RDiv(rate, FromInt(100)), Some(rate), "user rating")

\* ------------------------------------------------------ evaluate_session

\* Step 1 of evaluate_session: the first-completion result.
CompletionResult(s, cfg, fc) ==
    LET config == Get(cfg, "first_completion", EmptyDict)
    IN  IF fc # None
        THEN [name      |-> "first_completion",
              score     |-> IF fc[1] THEN One ELSE Zero,
              weight    |-> Get(config, "weight", DefaultWeight),
              raw_value |-> fc,
              detail    |-> IF fc[1] THEN "user confirmed" ELSE "user denied"]
        ELSE get_result("first_completion", config, CompletionEvaluate(s, config))

\* Mutant of IsFirstSuccess: the override does not reach the gate, which is
\* decided from the log alone.
IsFirstSuccess_FromLogOnly(s, cfg, fc) ==
    RLe(One, CompletionEvaluate(s, Get(cfg, "first_completion", EmptyDict)).score)

\* is_first_success after step 1.
IsFirstSuccess(s, cfg, fc) ==
    IF fc # None THEN fc[1] ELSE RLe(One, CompletionResult(s, cfg, fc).score)

\* Mutant of FirstTimeResult: the first-time score is never forced to 0.
FirstTimeResult_NeverForced(s, cfg, fc) ==
    get_result("first_time", Get(cfg, "first_time", EmptyDict),
               FirstTimeEvaluate(s, Get(cfg, "first_time", EmptyDict)))

\* Step 2 of evaluate_session: the first-time result.
FirstTimeResult(s, cfg, fc) ==
    LET config == Get(cfg, "first_time", EmptyDict)
        temp_result == get_result("first_time", config, FirstTimeEvaluate(s, config))
    IN  IF ~IsFirstSuccess(s, cfg, fc)
        THEN [name      |-> "first_time",
              score     |-> Zero,
              weight    |-> Get(config, "weight", DefaultWeight),
              raw_value |-> temp_result.raw_value,
              detail    |-> "forced to zero"]
        ELSE temp_result

\* Mutant of TaskCompletionConfig: the completion_rate argument is dropped.
TaskCompletionConfig_OverrideDropped(cfg, cr) == Get(cfg, "task_completion", EmptyDict)

\* task_completion_eval.config when its get_result is called.
TaskCompletionConfig(cfg, cr) ==
    LET config == Get(cfg, "task_completion", EmptyDict)
    IN  IF cr # None
        THEN [k \in DOMAIN config \cup {"completion_rate"} |->
                 IF k = "completion_rate" THEN cr[1] ELSE config[k]]
        ELSE config

\* Mutant of evaluate_session: the branch that forces the first-time score to
\* 0 does not append its result.
evaluate_session_GatedResultNotAppended(s, cfg, fc, cr) ==
    << CompletionResult(s, cfg, fc) >>
    \o (IF IsFirstSuccess(s, cfg, fc) THEN << FirstTimeResult(s, cfg, fc) >> ELSE << >>)
    \o << get_result("prompt_count", Get(cfg, "prompt_count", EmptyDict),
                     PromptCountEvaluate(s, Get(cfg, "prompt_count", EmptyDict))),
          get_result("total_time", Get(cfg, "total_time", EmptyDict),
                     TotalTimeEvaluate(s, Get(cfg, "total_time", EmptyDict))),
          get_result("code_size", Get(cfg, "code_size", EmptyDict),
                     CodeSizeEvaluate(s, Get(cfg, "code_size", EmptyDict))),
          get_result("task_completion", TaskCompletionConfig(cfg, cr),
                     TaskCompletionEvaluate(s, TaskCompletionConfig(cfg, cr))) >>

\* evaluate_session: the list it returns.
evaluate_session(s, cfg, fc, cr) ==
    << CompletionResult(s, cfg, fc),
       FirstTimeResult(s, cfg, fc),
       get_result("prompt_count", Get(cfg, "prompt_count", EmptyDict),
                  PromptCountEvaluate(s, Get(cfg, "prompt_count", EmptyDict))),
       get_result("total_time", Get(cfg, "total_time", EmptyDict),
                  TotalTimeEvaluate(s, Get(cfg, "total_time", EmptyDict))),
       get_result("code_size", Get(cfg, "code_size", EmptyDict),
                  CodeSizeEvaluate(s, Get(cfg, "code_size", EmptyDict))),
       get_result("task_completion", TaskCompletionConfig(cfg, cr),
                  TaskCompletionEvaluate(s, TaskCompletionConfig(cfg, cr))) >>

\* Mutant of SessionAfterEvaluate: the total-time evaluator drops the
\* sidechain messages from session.messages before it sorts.
SessionAfterEvaluate_SidechainDropped(s) ==
    [s EXCEPT !.messages = SelectSeq(s.messages, LAMBDA m : ~m.is_sidechain)]

\* The SessionData after evaluate_session.  The evaluators read
\* user_prompts, first_user_ts, first_assistant_ts, messages and total_lines
\* and assign to none of them; TotalTimeEvaluator sorts a copy, sorted().
SessionAfterEvaluate(s) == s

\* Mutant of ConfigAfterEvaluate: the dict the task-completion evaluator
\* writes to is kept in SCORING_CONFIG, as setdefault would do.
ConfigAfterEvaluate_DefaultKept(cfg, cr) ==
    IF cr # None
    THEN [k \in DOMAIN cfg \cup {"task_completion"} |->
             IF k = "task_completion" THEN TaskCompletionConfig(cfg, cr) ELSE cfg[k]]
    ELSE cfg

\* SCORING_CONFIG after evaluate_session.  BaseEvaluator.__init__ keeps
\* `config or {}`: a non-empty dict is kept by reference, so the write to
\* config['completion_rate'] lands in SCORING_CONFIG; an empty or missing
\* one is replaced by a fresh dict.
ConfigAfterEvaluate(cfg, cr) ==
    IF cr # None /\ Get(cfg, "task_completion", EmptyDict) # EmptyDict
    THEN [cfg EXCEPT !.task_completion = TaskCompletionConfig(cfg, cr)]
    ELSE cfg

\* ------------------------------------------------------- EvaluationReport

\* [f(r) for r in results] for f = weight and f = weighted_score
RECURSIVE Weights(_)
Weights(rs) == IF rs = <<>> THEN <<>> ELSE <<Head(rs).weight>> \o Weights(Tail(rs))

RECURSIVE WeightedScores(_)
WeightedScores(rs) ==
    IF rs = <<>> THEN <<>>
    ELSE <<RMul(Head(rs).score, Head(rs).weight)>> \o WeightedScores(Tail(rs))

\* Mutant of compute_total_score: the plain mean of the scores, the weights
\* left out.
compute_total_score_PlainMean(rs) ==
    IF rs = <<>> THEN Zero
    ELSE IF RSum(Weights(rs)) = Zero THEN Zero
    ELSE RDiv(RSum([i \in 1..Len(rs) |-> rs[i].score]), FromInt(Len(rs)))

\* EvaluationReport.compute_total_score
compute_total_score(rs) ==
    IF rs = <<>> THEN Zero
    ELSE IF RSum(Weights(rs)) = Zero THEN Zero
    ELSE RDiv(RSum(WeightedScores(rs)), RSum(Weights(rs)))

\* ---------------------------------------------------------- table report

\* The characters of East Asian Width F or W among those the model writes:
\* the CJK characters of the table's labels and of the texts it is given.
WideChars ==
    {"u4f1a", "u8bdd", "u8bc4", "u5206", "u62a5", "u544a", "u9879", "u76ee",
     "u65f6", "u95f4", "u7ef4", "u5ea6", "u5f97", "u8be6", "u60c5", "u7efc",
     "u5408", "u52a0", "u6743", "u5e73", "u5747"}

\* get_char_width: 2 for a character of East Asian Width F or W, else 1 (the
\* box-drawing characters are of width A).
get_char_width(char) == IF char \in WideChars THEN 2 ELSE 1

RECURSIVE get_display_width(_)
get_display_width(text) ==
    IF text = <<>> THEN 0
    ELSE get_char_width(Head(text)) + get_display_width(Tail(text))

\* The loop of truncate_text: res grows until a character does not fit.
RECURSIVE TruncateLoop(_, _, _, _)
TruncateLoop(text, max_width, current_width, res) ==
    IF text = <<>> THEN res
    ELSE LET char_width == get_char_width(Head(text))
         IN  IF current_width + char_width > max_width THEN res
             ELSE TruncateLoop(Tail(text), max_width, current_width + char_width,
                               Append(res, Head(text)))

\* Mutant of truncate_text: text[:max_width], which counts characters and
\* not columns.
truncate_text_CountsCharacters(text, max_width) ==
    SubSeq(text, 1, IF Len(text) < max_width THEN Len(text) ELSE max_width)

truncate_text(text, max_width) == TruncateLoop(text, max_width, 0, <<>>)

\* char * n
Repeat(char, n) == [i \in 1..n |-> char]

\* pad_text
pad_text(text, width, align) ==
    LET truncated == truncate_text(text, width)
        current_width == get_display_width(truncated)
        padding == IF width - current_width > 0 THEN width - current_width ELSE 0
        left_pad == padding \div 2
        right_pad == padding - left_pad
    IN  CASE align = "left" -> truncated \o Repeat(" ", padding)
          [] align = "right" -> Repeat(" ", padding) \o truncated
          [] OTHER -> Repeat(" ", left_pad) \o truncated \o Repeat(" ", right_pad)

DigitChars == <<"0", "1", "2", "3", "4", "5", "6", "7", "8", "9">>

\* str(n) for n >= 0
RECURSIVE DecimalDigits(_)
DecimalDigits(n) ==
    IF n < 10 THEN <<DigitChars[n + 1]>>
    ELSE Append(DecimalDigits(n \div 10), DigitChars[(n % 10) + 1])

\* f"{n:0kd}"
ZeroPadded(n, k) ==
    Repeat("0", IF Len(DecimalDigits(n)) < k THEN k - Len(DecimalDigits(n)) ELSE 0)
        \o DecimalDigits(n)

\* f"{x:.3f}" for x >= 0: the nearest multiple of 1/1000, a tie going to the
\* even one.  (Python rounds the binary float, which differs from this only
\* on a decimal tie that the float does not hold exactly.)
Fixed3(x) ==
    LET scaled == 1000 * x[1]
        floor == scaled \div x[2]
        rest == scaled % x[2]
        up == 2 * rest > x[2] \/ (2 * rest = x[2] /\ floor % 2 = 1)
        thousandths == IF up THEN floor + 1 ELSE floor
        fraction == thousandths % 1000
    IN  DecimalDigits(thousandths \div 1000) \o <<".">>
            \o <<DigitChars[(fraction \div 100) + 1],
                 DigitChars[((fraction \div 10) % 10) + 1],
                 DigitChars[(fraction % 10) + 1]>>

\* timestamp.strftime('%Y-%m-%d %H:%M:%S')
strftime(ts) ==
    ZeroPadded(ts.year, 4) \o <<"-">> \o ZeroPadded(ts.month, 2) \o <<"-">>
        \o ZeroPadded(ts.day, 2) \o <<" ">> \o ZeroPadded(ts.hour, 2) \o <<":">>
        \o ZeroPadded(ts.minute, 2) \o <<":">> \o ZeroPadded(ts.second, 2)

\* The list `lines` of ScoreReporter.to_table.
TableLines(rep) ==
    LET inner_width == 60
        label_width == 9
        val_width == inner_width - label_width
        col1_w == 20
        col2_w == 10
        col3_w == 30
        bar == <<"u2551">>
        rule(left, fill, right) == <<left>> \o Repeat(fill, inner_width) \o <<right>>
        title == <<"C", "l", "a", "u", "d", "e", " ", "C", "o", "d", "e", " ",
                   "u4f1a", "u8bdd", "u8bc4", "u5206", "u62a5", "u544a">>
        row(i) ==
            LET result == rep.results[i]
                name == <<" ">> \o DecimalDigits(i) \o <<".", " ">> \o result.name
                score == <<" ">> \o Fixed3(result.score)
                detail == IF result.detail # <<>> THEN <<" ">> \o result.detail ELSE <<>>
            IN  bar \o pad_text(name, col1_w, "left") \o pad_text(score, col2_w, "left")
                    \o pad_text(detail, col3_w, "left") \o bar
    IN  << rule("u2554", "u2550", "u2557"),
           bar \o pad_text(title, inner_width, "center") \o bar,
           rule("u2560", "u2550", "u2563"),
           bar \o <<" ", "u4f1a", "u8bdd", "I", "D", ":", " ">>
               \o pad_text(rep.session_id, val_width, "left") \o bar,
           bar \o <<" ", "u9879", "u76ee", ":", " ", " ", " ">>
               \o pad_text(rep.project_path, val_width, "left") \o bar,
           bar \o <<" ", "u65f6", "u95f4", ":", " ", " ", " ">>
               \o pad_text(strftime(rep.timestamp), val_width, "left") \o bar,
           rule("u2560", "u2550", "u2563"),
           bar \o pad_text(<<" ", "u7ef4", "u5ea6">>, col1_w, "left")
               \o pad_text(<<" ", "u5f97", "u5206">>, col2_w, "left")
               \o pad_text(<<" ", "u8be6", "u60c5">>, col3_w, "left") \o bar,
           rule("u2560", "u2500", "u2563") >>
        \o [i \in 1..Len(rep.results) |-> row(i)]
        \o << rule("u2560", "u2550", "u2563"),
              bar \o pad_text(<<" ", "u7efc", "u5408", "u5f97", "u5206">>, col1_w, "left")
                  \o pad_text(<<" ">> \o Fixed3(rep.total_score), col2_w, "left")
                  \o pad_text(<<" ", "(", "u52a0", "u6743", "u5e73", "u5747", ")">>,
                              col3_w, "left") \o bar,
              rule("u255a", "u2550", "u255d") >>

\* ScoreReporter.to_table
to_table(rep) == Join(TableLines(rep))

\* ----------------------------------------------------------------- input

Str(text) == [kind |-> "str", text |-> text]
Parts(parts) == [kind |-> "list", parts |-> parts]
Iso(sec) == [kind |-> "iso", sec |-> sec, aware |-> TRUE]

\* file_path.stem of the session file, and the id of another session.
SessionId == "s1"
OtherSessionId == "s2"

\* One line of a session file, as json.loads returns it.
Record(type, sec, content, sidechain) ==
    [json |-> "object", type |-> type, uuid |-> "", sessionId |-> SessionId,
     timestamp |-> Iso(sec), message |-> [is_dict |-> TRUE, content |-> content],
     isSidechain |-> sidechain]

NoInput == [file_path |-> <<>>, content |-> <<>>, new_string |-> <<>>]

\* The parts of a structured content.
TextPart(text) ==
    [type |-> "text", text |-> text, name |-> "", input |-> NoInput, content |-> <<>>]
ToolResultPart(content) ==
    [type |-> "tool_result", text |-> <<>>, name |-> "", input |-> NoInput,
     content |-> content]
ToolUsePart(name, file_path, content, new_string) ==
    [type |-> "tool_use", text |-> <<>>, name |-> name,
     input |-> [file_path |-> file_path, content |-> content, new_string |-> new_string],
     content |-> <<>>]

\* A file text of n >= 1 lines: "x" and n - 1 line ends.
FileText(n) == [i \in 1..n |-> IF i = 1 THEN "x" ELSE "\n"]

PathA == <<"a", ".", "p", "y">>
TextAdd == <<"a", "d", "d">>
TextFix == <<"F", "i", "x", " ", "i", "t">>

\* The records of the sessions read under Spec.
LogRecords ==
    { Record("user", 0, Str(TextAdd), FALSE),
      Record("user", 10, Str(TextFix), FALSE),
      Record("assistant", 2, Parts(<<TextPart(<<"o", "k">>)>>), FALSE),
      Record("assistant", 40, Parts(<<ToolUsePart("Write", PathA, FileText(2), <<>>)>>), FALSE),
      Record("user", 3, Parts(<<ToolResultPart(<<"o", "k">>)>>), FALSE),
      Record("assistant", 65, Parts(<<ToolUsePart("Edit", PathA, <<>>, FileText(150))>>), TRUE) }

\* The records of the sessions read under SpecTiming: user prompts and
\* assistant replies at each of six instants, a tool-result message and a
\* sidechain reply.
Instants == {0, 5, 30, 65, 125, 135}

TimedRecords ==
    { Record("user", t, Str(TextAdd), FALSE) : t \in Instants }
    \cup { Record("assistant", t, Str(<<"o", "k">>), FALSE) : t \in Instants }
    \cup { Record("user", 30, Parts(<<ToolResultPart(<<"o", "k">>)>>), FALSE),
           Record("assistant", 65, Str(<<"o", "k">>), TRUE) }

\* The records of the sessions read under SpecVolume: replies that write 1,
\* 50 and 500 lines, one that runs another tool, one that writes to no path,
\* and a user prompt.
VolumeRecords ==
    { Record("assistant", 1, Parts(<<ToolUsePart("Write", PathA, FileText(1), <<>>)>>), FALSE),
      Record("assistant", 1, Parts(<<ToolUsePart("Write", PathA, FileText(50), <<>>)>>), FALSE),
      Record("assistant", 1, Parts(<<ToolUsePart("Edit", PathA, <<>>, FileText(500))>>), FALSE),
      Record("assistant", 1, Parts(<<ToolUsePart("Bash", <<>>, <<>>, <<>>)>>), FALSE),
      Record("assistant", 1, Parts(<<ToolUsePart("Write", <<>>, FileText(50), <<>>)>>), FALSE),
      Record("user", 0, Str(TextAdd), FALSE) }

\* A content that is absent from the message.
Absent == [kind |-> "absent"]

\* Timestamps that are not well-formed ISO strings with an offset: none, a
\* str that is no date, a number, and an ISO string without an offset.
MissingTimestamp == [kind |-> "missing", sec |-> 0, aware |-> FALSE]
InvalidTimestamp == [kind |-> "invalid", sec |-> 0, aware |-> FALSE]
NumberTimestamp == [kind |-> "number", sec |-> 0, aware |-> FALSE]
IsoNaive(sec) == [kind |-> "iso", sec |-> sec, aware |-> FALSE]

WithTimestamp(record, ts) == [record EXCEPT !.timestamp = ts]

\* A line that is not valid JSON, and one that is a JSON value but no object.
InvalidLine == [Record("", 0, Absent, FALSE) EXCEPT !.json = "invalid"]
ValueLine == [Record("", 0, Absent, FALSE) EXCEPT !.json = "value"]

\* A line whose bytes are not UTF-8.
UndecodableLine == [Record("", 0, Absent, FALSE) EXCEPT !.json = "undecodable"]

\* A record whose `message` is a str.
MessageNotObject(type, sec) ==
    [Record(type, sec, Absent, FALSE) EXCEPT !.message.is_dict = FALSE]

WriteTwoLines == Parts(<<ToolUsePart("Write", PathA, FileText(2), <<>>)>>)

\* The lines of the session files read under SpecAssembly: two well-formed
\* records out of order, records of other kinds, records without a usable
\* timestamp, and the lines json.loads or the loop cannot take.
AssemblyRecords ==
    { Record("user", 10, Str(TextAdd), FALSE),
      Record("assistant", 5, WriteTwoLines, FALSE),
      Record("summary", 1, WriteTwoLines, FALSE),
      Record("system", 2, Str(TextAdd), FALSE),
      WithTimestamp(Record("assistant", 0, WriteTwoLines, FALSE), InvalidTimestamp),
      WithTimestamp(Record("user", 0, Str(TextAdd), FALSE), MissingTimestamp),
      WithTimestamp(Record("user", 0, Str(TextAdd), FALSE), NumberTimestamp),
      WithTimestamp(Record("user", 0, Str(TextAdd), FALSE), IsoNaive(7)),
      MessageNotObject("user", 3),
      InvalidLine,
      ValueLine }

\* A line of an agent file: a sidechain record that names its session.
AgentRecord(type, sec, content, session_id) ==
    [Record(type, sec, content, TRUE) EXCEPT !.sessionId = session_id]

EditThreeLines == Parts(<<ToolUsePart("Edit", PathA, <<>>, FileText(3))>>)

\* The lines of the session files and of the agent files read under
\* SpecAgents.  Timestamps repeat within and across the two files.
PrimaryRecords ==
    { Record("user", 10, Str(TextAdd), FALSE),
      Record("assistant", 5, WriteTwoLines, FALSE),
      Record("assistant", 20, EditThreeLines, FALSE),
      InvalidLine }

AgentRecords ==
    { AgentRecord("assistant", 5, EditThreeLines, SessionId),
      AgentRecord("assistant", 1, WriteTwoLines, SessionId),
      AgentRecord("user", 15, Str(<<"W", "a", "r", "m", "u", "p">>), SessionId),
      AgentRecord("assistant", 0, WriteTwoLines, OtherSessionId),
      InvalidLine }

\* The lines read under SpecShared: a record with a uuid that the session
\* file and the agent file may both hold, records that are kept and lines
\* that are dropped; the agent file may be that of another session and may
\* start with a line of any sort.
SharedRecord == [Record("assistant", 5, WriteTwoLines, FALSE) EXCEPT !.uuid = "u1"]

SharedPrimaryRecords ==
    { SharedRecord,
      [Record("user", 10, Str(TextAdd), FALSE) EXCEPT !.uuid = "u2"],
      Record("summary", 0, WriteTwoLines, FALSE),
      InvalidLine }

SharedAgentRecords ==
    { SharedRecord,
      [AgentRecord("assistant", 1, EditThreeLines, SessionId) EXCEPT !.uuid = "u3"],
      WithTimestamp(AgentRecord("assistant", 0, EditThreeLines, SessionId),
                    InvalidTimestamp),
      AgentRecord("assistant", 0, WriteTwoLines, OtherSessionId),
      InvalidLine,
      UndecodableLine,
      ValueLine }

\* The records read under SpecSidechain: a prompt and a reply of the main
\* chain, a sidechain reply and a sidechain user message that write code,
\* and a user message of the main chain that holds a tool use.
SidechainRecords ==
    { Record("user", 10, Str(TextAdd), FALSE),
      Record("assistant", 20, WriteTwoLines, FALSE),
      Record("assistant", 5, Parts(<<ToolUsePart("Edit", PathA, <<>>, FileText(150))>>), TRUE),
      Record("user", 2, Parts(<<ToolUsePart("Write", PathA, FileText(120), <<>>)>>), TRUE),
      Record("user", 1, Parts(<<ToolUsePart("search_replace", PathA, <<>>, FileText(3))>>),
             FALSE) }

\* The sessions of the calls under SpecRuns.
RunRecords ==
    { Record("user", 10, Str(TextAdd), FALSE),
      Record("user", 20, Str(TextFix), FALSE) }

\* No call of pad_text, and no report.
NoPadArgs == [text |-> <<>>, width |-> 0, align |-> "left"]
NoReport ==
    [session_id |-> <<>>, project_path |-> <<>>,
     timestamp |-> [year |-> 1, month |-> 1, day |-> 1, hour |-> 0, minute |-> 0,
                    second |-> 0],
     results |-> <<>>, total_score |-> Zero]

\* The texts handed to pad_text: every text of a single-width and a
\* double-width character, every column, every alignment.
PadArgs ==
    [text : UNION { [1..n -> {"a", "u5ea6"}] : n \in 0..MaxTextLen },
     width : 0..MaxPadWidth,
     align : {"left", "right", "center"}]

\* The reports handed to ScoreReporter: texts that fit their columns, texts
\* that fill them, and texts that end on a double-width character across
\* the column's edge.
ReportTexts ==
    { [NoReport EXCEPT !.session_id = <<"s", "1">>],
      [session_id |-> <<"s", "1">>,
       project_path |-> Repeat("p", 50) \o <<"u76ee", "u76ee">>,
       timestamp |-> [year |-> 2025, month |-> 11, day |-> 6, hour |-> 9,
                      minute |-> 30, second |-> 5],
       results |-> << [name |-> <<"a">> \o Repeat("u5ea6", 9), score |-> Rat(5, 6),
                       detail |-> Repeat("u60c5", 15)],
                      [name |-> <<"t", "i", "m", "e">>, score |-> One,
                       detail |-> <<>>] >>,
       total_score |-> Rat(11, 12)],
      [session_id |-> Repeat("u8bdd", 26), project_path |-> <<"p">>,
       timestamp |-> [year |-> 2025, month |-> 1, day |-> 2, hour |-> 13,
                      minute |-> 4, second |-> 59],
       results |-> << [name |-> <<"t", "i", "m", "e">>, score |-> Zero,
                       detail |-> Repeat("b", 29)] >>,
       total_score |-> Zero] }

\* A part of type thinking.
ThinkingPart(thinking) ==
    [type |-> "thinking", text |-> <<>>, name |-> "", input |-> NoInput,
     content |-> <<>>, thinking |-> thinking]

\* The records of the sessions read under SpecContent: str contents and
\* structured contents of every mix of parts, with tool outputs of 60
\* characters (the last 10 unlike the first 50), of 50 and of 2.
ContentRecords ==
    { Record("user", 5, Str(TextAdd), FALSE),
      Record("user", 10,
             Parts(<<TextPart(<<"h", "i">>),
                     ToolResultPart([i \in 1..60 |-> IF i <= 50 THEN "a" ELSE "b"])>>),
             FALSE),
      Record("user", 15, Parts(<<TextPart(TextAdd)>>), FALSE),
      Record("user", 25, Parts(<<ToolResultPart(<<"o", "k">>), TextPart(<<>>),
                                 ToolResultPart([i \in 1..50 |-> "c"])>>), FALSE),
      Record("assistant", 20,
             Parts(<<ThinkingPart(<<"h", "i">>), TextPart(<<"o", "k">>),
                     ToolUsePart("Bash", <<>>, <<>>, <<>>),
                     ToolUsePart("Write", PathA, FileText(2), <<>>),
                     TextPart(TextFix)>>), FALSE),
      Record("assistant", 30, Parts(<<ThinkingPart(<<"o", "k">>)>>), FALSE) }

TextScore == <<"S", "c", "o", "r", "e", " ", "i", "t">>
TextWarmup == <<"W", "a", "r", "m", "U", "p">>
TextRate == <<"u8bf7", "u8bc4", "u5206">>

\* The lines of the session files read under SpecPrompts: user messages
\* that are prompts (one of them without text), user messages that are a
\* request for a score, a warmup, a tool result or a sidechain message, and
\* assistant replies, one of them a sidechain reply earlier than the rest.
PromptRecords ==
    { Record("user", 10, Str(TextAdd), FALSE),
      Record("user", 40, Absent, FALSE),
      Record("user", 20, Str(TextScore), FALSE),
      Record("user", 30, Str(TextRate), FALSE),
      Record("user", 5, Str(TextWarmup), FALSE),
      Record("user", 2, Parts(<<ToolResultPart(<<"o", "k">>)>>), FALSE),
      Record("user", 1, Str(TextAdd), TRUE),
      Record("assistant", 0, Str(<<"o", "k">>), TRUE),
      Record("assistant", 12, Str(<<"o", "k">>), FALSE) }

\* The lines of the session files read under SpecTools: a reply with a Bash
\* and a Write tool use, an Edit that gives its text as new_string, a
\* search_replace without text, a Write without a path, a sidechain user
\* message with a Write, and two records the loop drops.
ToolRecords ==
    { Record("assistant", 5, Parts(<<ToolUsePart("Bash", PathA, FileText(3), <<>>),
                                     ToolUsePart("Write", PathA, FileText(2), <<>>)>>), FALSE),
      Record("assistant", 3, EditThreeLines, FALSE),
      Record("assistant", 5, Parts(<<ToolUsePart("search_replace", PathA, <<>>, <<>>)>>), FALSE),
      Record("assistant", 1, Parts(<<ToolUsePart("Write", <<>>, FileText(2), <<>>)>>), FALSE),
      Record("user", 2, Parts(<<ToolUsePart("Write", PathA, FileText(1), <<>>)>>), TRUE),
      Record("summary", 0, WriteTwoLines, FALSE),
      WithTimestamp(Record("assistant", 0, WriteTwoLines, FALSE), InvalidTimestamp) }

\* The values of evaluate_session's optional arguments.
FirstCompletedInputs == {None, Some(TRUE), Some(FALSE)}
CompletionRateInputs ==
    {None, Some(FromInt(-50)), Some(Zero), Some(FromInt(50)), Some(FromInt(150))}

\* ------------------------------------------------------------- behaviour

Init ==
    /\ session_file = "readable"
    /\ records = <<>>
    /\ agent_records = <<>>
    /\ include_agents = TRUE
    /\ scoring_config = SCORING_CONFIG
    /\ session = EmptySession
    /\ first_completed = None
    /\ completion_rate = None
    /\ calls = <<>>
    /\ results = <<>>
    /\ total_score = Zero
    /\ pad_args = NoPadArgs
    /\ pad_result = None
    /\ report = NoReport
    /\ table = None
    /\ pc = "read"

\* What parse_jsonl_file iterates over.  The session file is "readable",
\* "missing" (no file at all) or "unreadable" (a path that exists and cannot
\* be opened: a directory, a file without read permission); open() raising
\* IOError is caught and the file counts as having no lines.
FileLines(file, lines) == IF file = "unreadable" THEN <<>> ELSE lines

\* One more line in the session file, when there is such a file.
ReadRecord(alphabet, max) ==
    /\ pc = "read"
    /\ session_file # "missing"
    /\ Len(records) < max
    /\ \E r \in alphabet : records' = Append(records, r)
    /\ UNCHANGED <<calls, pad_args, pad_result, report, table>>
    /\ UNCHANGED <<session_file, agent_records, include_agents, scoring_config, session,
                   first_completed, completion_rate, results, total_score, pc>>

\* One more line of the agent file of the project directory.
ReadAgentRecord(alphabet, max) ==
    /\ pc = "read"
    /\ Len(agent_records) < max
    /\ \E r \in alphabet : agent_records' = Append(agent_records, r)
    /\ UNCHANGED <<calls, pad_args, pad_result, report, table>>
    /\ UNCHANGED <<session_file, records, include_agents, scoring_config, session,
                   first_completed, completion_rate, results, total_score, pc>>

\* cmd_evaluate's call of parse_session_file on the files as they are now.
\* An exception leaves cmd_evaluate, which has no handler for it.
ParseSessionFile(flags) ==
    /\ pc = "read"
    /\ session_file # "missing"
    /\ \E with_agents \in flags :
        LET lines == FileLines(session_file, records)
        IN  /\ include_agents' = with_agents
            /\ IF ParseRaises(lines, agent_records, SessionId, with_agents)
               THEN /\ pc' = "raised"
                    /\ session' = session
               ELSE /\ pc' = "parsed"
                    /\ session' = parse_session_file(
                                      RecordsOf(lines, agent_records, SessionId, with_agents))
    /\ UNCHANGED <<calls, pad_args, pad_result, report, table>>
    /\ UNCHANGED <<session_file, records, agent_records, scoring_config, first_completed,
                   completion_rate, results, total_score>>

\* cmd_evaluate finds no session file (no <id>.jsonl in any project directory,
\* no latest session, a --file path that does not exist): it prints the
\* error and leaves with sys.exit(1).
ExitNotFound ==
    /\ pc = "read"
    /\ session_file = "missing"
    /\ pc' = "failed"
    /\ UNCHANGED <<calls, pad_args, pad_result, report, table>>
    /\ UNCHANGED <<session_file, records, agent_records, include_agents, scoring_config,
                   session, first_completed, completion_rate, results, total_score>>

\* cmd_evaluate's call of evaluate_session.
EvaluateSession(fcs, crs) ==
    /\ pc = "parsed"
    /\ \E fc \in fcs, cr \in crs :
        /\ first_completed' = fc
        /\ completion_rate' = cr
        /\ calls' = Append(calls, [first_completed |-> fc, completion_rate |-> cr])
        /\ results' = evaluate_session(session, scoring_config, fc, cr)
        /\ scoring_config' = ConfigAfterEvaluate(scoring_config, cr)
    /\ session' = SessionAfterEvaluate(session)
    /\ pc' = "evaluated"
    /\ UNCHANGED <<pad_args, pad_result, report, table>>
    /\ UNCHANGED <<session_file, records, agent_records, include_agents, total_score>>

\* generate_report
GenerateReport ==
    /\ pc = "evaluated"
    /\ total_score' = compute_total_score(results)
    /\ pc' = "reported"
    /\ UNCHANGED <<calls, pad_args, pad_result, report, table>>
    /\ UNCHANGED <<session_file, records, agent_records, include_agents, scoring_config, session,
                   first_completed, completion_rate, results>>

Next ==
    \/ ReadRecord(LogRecords, MaxRecords)
    \/ ParseSessionFile({TRUE})
    \/ EvaluateSession(FirstCompletedInputs, CompletionRateInputs)
    \/ GenerateReport

Spec == Init /\ [][Next]_vars

\* The same program, with every value of the overrides, on shorter files.
NextFrame ==
    \/ ReadRecord(LogRecords, MaxFrameRecords)
    \/ ParseSessionFile({TRUE})
    \/ EvaluateSession(FirstCompletedInputs, CompletionRateInputs)
    \/ GenerateReport

SpecFrame == Init /\ [][NextFrame]_vars

\* The same program on sessions that differ in their timestamps.
NextTiming ==
    \/ ReadRecord(TimedRecords, MaxTimedRecords)
    \/ ParseSessionFile({TRUE})
    \/ EvaluateSession({None, Some(TRUE)}, {None})
    \/ GenerateReport

SpecTiming == Init /\ [][NextTiming]_vars

\* The same program on sessions that differ in the code they write.
NextVolume ==
    \/ ReadRecord(VolumeRecords, MaxVolumeRecords)
    \/ ParseSessionFile({TRUE})
    \/ EvaluateSession({None}, {None})
    \/ GenerateReport

SpecVolume == Init /\ [][NextVolume]_vars

\* The same program on session files with lines that are not well-formed.
NextAssembly ==
    \/ ReadRecord(AssemblyRecords, MaxAssemblyRecords)
    \/ ParseSessionFile({TRUE})
    \/ EvaluateSession({None}, {None})
    \/ GenerateReport

SpecAssembly == Init /\ [][NextAssembly]_vars

\* The same program on a project directory with an agent file, with and
\* without --no-agents.
NextAgents ==
    \/ ReadRecord(PrimaryRecords, MaxPrimaryRecords)
    \/ ReadAgentRecord(AgentRecords, MaxAgentRecords)
    \/ ParseSessionFile({TRUE, FALSE})
    \/ EvaluateSession({None}, {None})
    \/ GenerateReport

SpecAgents == Init /\ [][NextAgents]_vars

\* The same program on sessions that differ in what their user messages are.
NextPrompts ==
    \/ ReadRecord(PromptRecords, MaxPromptRecords)
    \/ ParseSessionFile({TRUE})
    \/ EvaluateSession({None}, {None})
    \/ GenerateReport

SpecPrompts == Init /\ [][NextPrompts]_vars

\* The same program on sessions that differ in their tool uses.
NextTools ==
    \/ ReadRecord(ToolRecords, MaxToolRecords)
    \/ ParseSessionFile({TRUE})
    \/ EvaluateSession({None}, {None})
    \/ GenerateReport

SpecTools == Init /\ [][NextTools]_vars

\* The MCP server takes its next evaluate_session call: the session file is
\* read and evaluated again in the same process, with SCORING_CONFIG as the
\* calls before left it.
NextCall ==
    /\ pc = "reported"
    /\ Len(calls) < MaxCalls
    /\ pc' = "read"
    /\ UNCHANGED <<session_file, records, agent_records, include_agents, scoring_config,
                   session, first_completed, completion_rate, calls, results, total_score,
                   pad_args, pad_result, report, table>>

\* The same program on a session file and an agent file that share records.
NextShared ==
    \/ ReadRecord(SharedPrimaryRecords, MaxSharedRecords)
    \/ ReadAgentRecord(SharedAgentRecords, MaxSharedRecords)
    \/ ParseSessionFile({TRUE, FALSE})
    \/ EvaluateSession({None}, {None})
    \/ GenerateReport

SpecShared == Init /\ [][NextShared]_vars

\* The same program on sessions whose sidechain and user messages write code.
NextSidechain ==
    \/ ReadRecord(SidechainRecords, MaxSidechainRecords)
    \/ ParseSessionFile({TRUE})
    \/ EvaluateSession({None}, {None})
    \/ GenerateReport

SpecSidechain == Init /\ [][NextSidechain]_vars

\* The same program as a process that evaluates several times.
NextRuns ==
    \/ ReadRecord(RunRecords, MaxRunRecords)
    \/ ParseSessionFile({TRUE})
    \/ EvaluateSession({None, Some(TRUE), Some(FALSE)}, {None, Some(FromInt(50))})
    \/ GenerateReport
    \/ NextCall

SpecRuns == Init /\ [][NextRuns]_vars

\* A call of pad_text.
PadText ==
    /\ pad_result = None
    /\ pad_result' = Some(pad_text(pad_args.text, pad_args.width, pad_args.align))
    /\ UNCHANGED <<session_file, records, agent_records, include_agents, scoring_config,
                   session, first_completed, completion_rate, calls, results, total_score,
                   pad_args, report, table, pc>>

\* print_report('table'): ScoreReporter.to_table on the report.
ToTable ==
    /\ pc = "reported"
    /\ table' = Some(to_table(report))
    /\ pc' = "printed"
    /\ UNCHANGED <<session_file, records, agent_records, include_agents, scoring_config,
                   session, first_completed, completion_rate, calls, results, total_score,
                   pad_args, pad_result, report>>

\* The reporter's text functions on texts, columns and reports of every sort.
InitPad ==
    /\ session_file = "readable"
    /\ records = <<>>
    /\ agent_records = <<>>
    /\ include_agents = TRUE
    /\ scoring_config = SCORING_CONFIG
    /\ session = EmptySession
    /\ first_completed = None
    /\ completion_rate = None
    /\ calls = <<>>
    /\ results = <<>>
    /\ total_score = Zero
    /\ pad_args \in PadArgs
    /\ pad_result = None
    /\ report \in ReportTexts
    /\ table = None
    /\ pc = "reported"

NextPad ==
    \/ PadText
    \/ ToTable

SpecPad == InitPad /\ [][NextPad]_vars

\* The same program on sessions that differ in the parts of their contents.
NextContent ==
    \/ ReadRecord(ContentRecords, MaxContentRecords)
    \/ ParseSessionFile({TRUE})
    \/ EvaluateSession({None}, {None})
    \/ GenerateReport

SpecContent == Init /\ [][NextContent]_vars

\* The same program on a path that may name no file or one that cannot be
\* opened.
InitFile ==
    /\ session_file \in {"readable", "missing", "unreadable"}
    /\ records = <<>>
    /\ agent_records = <<>>
    /\ include_agents = TRUE
    /\ scoring_config = SCORING_CONFIG
    /\ session = EmptySession
    /\ first_completed = None
    /\ completion_rate = None
    /\ calls = <<>>
    /\ results = <<>>
    /\ total_score = Zero
    /\ pad_args = NoPadArgs
    /\ pad_result = None
    /\ report = NoReport
    /\ table = None
    /\ pc = "read"

NextFile ==
    \/ ReadRecord(PrimaryRecords, MaxFileRecords)
    \/ ExitNotFound
    \/ ParseSessionFile({TRUE})
    \/ EvaluateSession({None}, {None})
    \/ GenerateReport

SpecFile == InitFile /\ [][NextFile]_vars

\* generate_report on result lists of any length, score and weight.
ReportScores == {Zero, Rat(1, 2), One}
ReportWeights == {Zero, One, FromInt(3)}

ReportResults ==
    { [name |-> "dimension", score |-> sc, weight |-> w, raw_value |-> None,
       detail |-> "given"] : sc \in ReportScores, w \in ReportWeights }

ResultLists == UNION { [1..n -> ReportResults] : n \in 0..MaxResults }

InitReport ==
    /\ session_file = "readable"
    /\ records = <<>>
    /\ agent_records = <<>>
    /\ include_agents = TRUE
    /\ scoring_config = SCORING_CONFIG
    /\ session = EmptySession
    /\ first_completed = None
    /\ completion_rate = None
    /\ calls = <<>>
    /\ results \in ResultLists
    /\ total_score = Zero
    /\ pad_args = NoPadArgs
    /\ pad_result = None
    /\ report = NoReport
    /\ table = None
    /\ pc = "evaluated"

NextReport == GenerateReport

SpecReport == InitReport /\ [][NextReport]_vars

\* ------------------------------------------------------------- shorthand

Evaluated == pc \in {"evaluated", "reported"}
Parsed == pc \in {"parsed", "evaluated", "reported"}
Completion == results[1]
FirstTime == results[2]
PromptCount == results[3]
TotalTime == results[4]
CodeSize == results[5]
TaskCompletion == results[6]

\* The measurement and score FirstTimeEvaluator reports for the session on its own.
Ungated == FirstTimeEvaluate(session, scoring_config.first_time)

\* ----------------------------------------------------------------- claims

\* C1: with no first_completed override and an incomplete first-completion
\* result (score < 1), and also with first_completed = False, the
\* first-time result has score 0 and the raw value the ungated
\* FirstTimeEvaluator reports for the session: the difference of the two
\* first timestamps in seconds, or none when one of them is absent.
C1_IncompleteForcesLatencyZero ==
    ( /\ Evaluated
      /\ \/ first_completed = None /\ RLt(Completion.score, One)
         \/ first_completed = Some(FALSE) )
    => /\ FirstTime.name = "first_time"
       /\ FirstTime.score = Zero
       /\ FirstTime.raw_value = Ungated.raw_value
       /\ FirstTime.raw_value =
             IF session.first_user_ts = None \/ session.first_assistant_ts = None
             THEN None
             ELSE Some(FromInt(session.first_assistant_ts[1] - session.first_user_ts[1]))

\* C1 witness: no override, two user prompts judged incomplete, and a
\* 2-second first response that would have scored 1.0 on its own.
C1_Witness ==
    /\ Evaluated
    /\ first_completed = None
    /\ Completion.score = Zero
    /\ Ungated.score = One
    /\ FirstTime.raw_value = Some(FromInt(2))
    /\ FirstTime.score = Zero

\* The second user prompt contains a modify keyword, case-insensitively.
SecondPromptModifies ==
    LET content == session.user_prompts[2].content
        text == Lower(IF content = None THEN <<>> ELSE content[1])
    IN  \E k \in 1..Len(MODIFY_KEYWORDS) : Contains(text, Lower(MODIFY_KEYWORDS[k]))

\* C2 as stated: with no override the first-completion score is 1 for at
\* most one user prompt and 0 for two or more, whatever the prompts say.
C2_Original ==
    Evaluated /\ first_completed = None =>
        Completion.score = IF Len(session.user_prompts) <= 1 THEN One ELSE Zero

\* C2 amended: with no override the first-completion score is 1 for at most
\* one user prompt; for two or more it is 0 exactly when the second user
\* prompt contains a modify keyword and 1 otherwise; the first-time score is
\* 0 whenever the first-completion score is 0.
C2_SecondPromptDecides ==
    Evaluated /\ first_completed = None =>
        /\ Completion.score =
              IF Len(session.user_prompts) <= 1 THEN One
              ELSE IF SecondPromptModifies THEN Zero ELSE One
        /\ Completion.score = Zero => FirstTime.score = Zero

\* C2 witness: three user prompts, the second a new request, scored complete
\* with the latency not forced to 0.
C2_Witness ==
    /\ Evaluated
    /\ first_completed = None
    /\ Len(session.user_prompts) = 3
    /\ ~SecondPromptModifies
    /\ Completion.score = One
    /\ FirstTime.score = One

\* C3: with first_completed = True the first-completion result is score 1,
\* raw value True, whatever the log says, and the first-time result is the
\* ungated FirstTimeEvaluator's score and raw value.
C3_OverrideTrueUngatesLatency ==
    Evaluated /\ first_completed = Some(TRUE) =>
        /\ Completion.score = One
        /\ Completion.raw_value = Some(TRUE)
        /\ FirstTime.score = Ungated.score
        /\ FirstTime.raw_value = Ungated.raw_value

\* C3 witness: the override on a session of several rounds that the log alone
\* judges incomplete, with the latency scored 1.0.
C3_Witness ==
    /\ Evaluated
    /\ first_completed = Some(TRUE)
    /\ Len(session.user_prompts) >= 2
    /\ CompletionEvaluate(session, scoring_config.first_completion).score = Zero
    /\ Completion.score = One
    /\ FirstTime.score = One

InUnit(x) == RLe(Zero, x) /\ RLe(x, One)

\* C4: for every session and every combination of the two overrides each
\* result's score is in [0,1], and so is the report's total score.
C4_ScoresInUnitInterval ==
    /\ Evaluated => \A i \in 1..Len(results) : InUnit(results[i].score)
    /\ pc = "reported" => InUnit(total_score)

\* C4 witness: a report of a session with messages, scored with a completion
\* rate above 100 and first_completed = False.
C4_Witness ==
    /\ pc = "reported"
    /\ session.messages # <<>>
    /\ first_completed = Some(FALSE)
    /\ completion_rate = Some(FromInt(150))
    /\ Len(results) = 6
    /\ RLt(Zero, total_score)

\* TotalTimeEvaluator's raw value as a number of seconds.
TotalSeconds == TotalTime.raw_value[1][1]

\* C5 as stated: the total-time score is 1 for a sum of at most 60 seconds,
\* also for a session without messages, and 60/sum beyond.
C5_Original ==
    Evaluated =>
        TotalTime.score = IF TotalSeconds <= 60 THEN One ELSE Rat(60, TotalSeconds)

\* C5 amended: the total-time score is 0 for a session without messages;
\* otherwise it is 1 for a sum of 0, 1 - sum/60 for a sum between 0 and 60,
\* and 0 for a sum of 60 seconds or more.
C5_LinearDecay ==
    Evaluated =>
        TotalTime.score =
            IF session.messages = <<>> THEN Zero
            ELSE IF TotalSeconds = 0 THEN One
            ELSE IF TotalSeconds < 60 THEN Rat(60 - TotalSeconds, 60)
            ELSE Zero

\* C5 witness: a raw total of 10 seconds, scored 5/6.
C5_Witness ==
    /\ Evaluated
    /\ TotalSeconds = 10
    /\ TotalTime.score = Rat(5, 6)

\* The gap before message i of msgs, when it counts: message i is an
\* Assistant message, not the first, and the gap is strictly between 0 and
\* 120 seconds.
CountedGap(msgs, i) ==
    LET g == msgs[i].timestamp - msgs[i - 1].timestamp
    IN  IF i > 1 /\ msgs[i].msg_type = "ASSISTANT" /\ 0 < g /\ g < 120 THEN g ELSE 0

RECURSIVE GapSum(_, _)
GapSum(msgs, n) == IF n = 0 THEN 0 ELSE GapSum(msgs, n - 1) + CountedGap(msgs, n)

\* C6: the total-time raw value is the sum, over the timestamp-sorted
\* sequence of all messages, of the gaps before Assistant messages that are
\* strictly between 0 and 120 seconds.
C6_RawValueIsGapSum ==
    Evaluated =>
        TotalTime.raw_value = Some(FromInt(GapSum(session.messages, Len(session.messages))))

\* C6 witness: an Assistant message 125 seconds after its predecessor and one
\* 10 seconds after its predecessor; the raw value is 10.
C6_Witness ==
    /\ Evaluated
    /\ Len(session.messages) = 3
    /\ session.messages[2].msg_type = "ASSISTANT"
    /\ session.messages[2].timestamp - session.messages[1].timestamp = 125
    /\ session.messages[3].msg_type = "ASSISTANT"
    /\ session.messages[3].timestamp - session.messages[2].timestamp = 10
    /\ TotalSeconds = 10

\* CodeSizeEvaluator's score for a total of n lines.
CodeSizeScoreAt(n) ==
    CodeSizeEvaluate([session EXCEPT !.total_lines = n], scoring_config.code_size).score

\* The totals the score of the session is compared with.
ProbeLines == 0..1600

CountType(type) == Cardinality({i \in 1..Len(session.messages) : session.messages[i].msg_type = type})

FirstTimeScoreAt(t) ==
    FirstTimeEvaluate([session EXCEPT !.first_user_ts = Some(0),
                                      !.first_assistant_ts = Some(t)],
                      scoring_config.first_time).score

\* C9: the ungated first-time result has score 0 and no raw value when a
\* first timestamp is absent; otherwise, for t = first_assistant_ts -
\* first_user_ts, the score is 0 for t <= 0, 1 for 0 < t <= 5, 0 for
\* t >= 60, and for 5 < t < 60 strictly between 0 and 1 and strictly
\* decreasing in t.
C9_FirstTimeCurve ==
    Evaluated /\ first_completed = Some(TRUE) =>
        IF session.first_user_ts = None \/ session.first_assistant_ts = None
        THEN FirstTime.score = Zero /\ FirstTime.raw_value = None
        ELSE LET t == session.first_assistant_ts[1] - session.first_user_ts[1] IN
             /\ FirstTime.raw_value = Some(FromInt(t))
             /\ t <= 0 => FirstTime.score = Zero
             /\ 0 < t /\ t <= 5 => FirstTime.score = One
             /\ t >= 60 => FirstTime.score = Zero
             /\ 5 < t /\ t < 60 =>
                   /\ RLt(Zero, FirstTime.score)
                   /\ RLt(FirstTime.score, One)
                   /\ \A t2 \in 6..59 :
                         t < t2 => RLt(FirstTimeScoreAt(t2), FirstTime.score)

\* C9 witness: the first assistant reply precedes the first user prompt, and
\* the result is score 0 with the negative difference as raw value.
C9_Witness ==
    /\ Evaluated
    /\ first_completed = Some(TRUE)
    /\ session.first_user_ts # None
    /\ session.first_assistant_ts # None
    /\ session.first_assistant_ts[1] < session.first_user_ts[1]
    /\ FirstTime.score = Zero
    /\ FirstTime.raw_value = Some(FromInt(session.first_assistant_ts[1] - session.first_user_ts[1]))

\* clamp(p, 0, 100)
Clamp100(p) ==
    IF RLt(p, Zero) THEN Zero ELSE IF RLt(FromInt(100), p) THEN FromInt(100) ELSE p

\* C10: the task-completion score is clamp(p, 0, 100)/100 for the supplied
\* completion_rate p, and 1 when none is supplied, whatever the session holds.
C10_TaskCompletionClamped ==
    Evaluated =>
        TaskCompletion.score =
            IF completion_rate = None THEN One
            ELSE RDiv(Clamp100(completion_rate[1]), FromInt(100))

\* C10 witness: a completion rate of 50 scored 1/2 on a session with messages
\* and code operations.
C10_Witness ==
    /\ Evaluated
    /\ completion_rate = Some(FromInt(50))
    /\ TaskCompletion.score = Rat(1, 2)
    /\ session.messages # <<>>
    /\ session.code_operations # <<>>

\* The six dimensions in the order of evaluate_session.
ResultOrder ==
    <<"first_completion", "first_time", "prompt_count", "total_time", "code_size",
      "task_completion">>

\* C11: for every session and every combination of the two overrides,
\* evaluate_session returns exactly six results, named in the order first
\* completion, first time, prompt count, total time, code size, task
\* completion.
C11_SixResultsInFixedOrder ==
    Evaluated =>
        /\ Len(results) = 6
        /\ [i \in 1..6 |-> results[i].name] = ResultOrder

\* C11 witness: both overrides given, the first-time result replaced by the
\* forced one, and the six results in order.
C11_Witness ==
    /\ Evaluated
    /\ first_completed = Some(FALSE)
    /\ completion_rate = Some(FromInt(150))
    /\ session.messages # <<>>
    /\ Len(results) = 6
    /\ [i \in 1..6 |-> results[i].name] = ResultOrder
    /\ FirstTime.detail = "forced to zero"

\* C12: the report's total score is the sum of score x weight over the
\* results it was given, divided by the sum of their weights, and 0 when
\* there is no result or the weights sum to 0; the results are those passed in.
C12_TotalIsWeightedMean ==
    [][ pc = "evaluated" /\ pc' = "reported" =>
          LET n == Len(results)
              weight_sum == RSum([i \in 1..n |-> results[i].weight])
              weighted_sum == RSum([i \in 1..n |-> RMul(results[i].score, results[i].weight)])
          IN  /\ results' = results
              /\ IF n = 0 \/ weight_sum = Zero
                 THEN total_score' = Zero
                 ELSE RMul(total_score', weight_sum) = weighted_sum ]_vars

\* C12 witness: a report of two results, score 1 of weight 3 and score 0 of
\* weight 1, with total score 3/4.
C12_Witness ==
    /\ pc = "reported"
    /\ Len(results) = 2
    /\ results[1].score = One /\ results[1].weight = FromInt(3)
    /\ results[2].score = Zero /\ results[2].weight = One
    /\ total_score = Rat(3, 4)

\* A line that is a user or assistant record with a parseable timestamp and
\* a `message` object.
WellFormed(line) ==
    /\ line.json = "object"
    /\ line.type \in {"user", "assistant"}
    /\ line.timestamp.kind = "iso"
    /\ line.message.is_dict

\* C13 as stated: parse_session_file never raises, whatever the lines are,
\* and returns a session with one message per well-formed record.
C13_AssemblyNeverRaises ==
    /\ pc # "raised"
    /\ Parsed => Len(session.messages) =
                     Cardinality({i \in 1..Len(records) : WellFormed(records[i])})

\* The list `records` the session was assembled from.
AssembledRecords == RecordsOf(records, agent_records, SessionId, include_agents)

NonDecreasing(s) == \A i \in 1..(Len(s) - 1) : s[i].timestamp <= s[i + 1].timestamp

\* C14: in the session parse_session_file returns, messages and
\* code_operations are each non-decreasing in timestamp, whatever the order
\* of the records in the session file and in the agent file.
C14_SortedByTimestamp ==
    Parsed => /\ NonDecreasing(session.messages)
              /\ NonDecreasing(session.code_operations)

\* C14 witness: four messages and at least two code operations from both
\* files, read in an order that is not the order of their timestamps.
C14_Witness ==
    /\ Parsed
    /\ include_agents
    /\ Len(session.messages) = 4
    /\ Len(session.code_operations) >= 2
    /\ \E i \in 1..4 : session.messages[i].is_sidechain
    /\ ~NonDecreasing(MessagesOf(AssembledRecords))
    /\ ~NonDecreasing(CodeOperationsOf(AssembledRecords))
    /\ NonDecreasing(session.messages)
    /\ NonDecreasing(session.code_operations)

\* The text of a message, empty when it has none.
TextOf(m) == IF m.content = None THEN <<>> ELSE m.content[1]

\* word occurs in text, letters compared without regard to case.
ContainsNoCase(text, word) ==
    \E i \in 0..(Len(text) - Len(word)) :
        \A j \in 1..Len(word) : LowerChar(text[i + j]) = LowerChar(word[j])

\* A message that counts as a user prompt.
CountsAsPrompt(m) ==
    /\ m.msg_type = "USER"
    /\ ~m.is_tool_result
    /\ ~m.is_sidechain
    /\ \A k \in 1..Len(FILTER_KEYWORDS) : ~ContainsNoCase(TextOf(m), FILTER_KEYWORDS[k])
    /\ ~ContainsNoCase(TextOf(m), <<"w", "a", "r", "m", "u", "p">>)

\* The messages of msgs that count as user prompts, in the order of msgs.
RECURSIVE PromptsAmong(_)
PromptsAmong(msgs) ==
    IF msgs = <<>> THEN <<>>
    ELSE (IF CountsAsPrompt(Head(msgs)) THEN <<Head(msgs)>> ELSE <<>>)
             \o PromptsAmong(Tail(msgs))

\* C15: user_prompts is the subsequence of messages of type User that are no
\* tool result, no sidechain message and contain neither a denylist keyword
\* nor 'warmup', case-insensitively, wherever they stand in the session; and
\* messages is the sorted list of the messages built from the records,
\* unchanged by the filter.
C15_UserPromptsFilter ==
    Parsed =>
        /\ session.user_prompts = PromptsAmong(session.messages)
        /\ session.messages = SortByTimestamp(MessagesOf(AssembledRecords))

\* C15 witness: three user messages, the middle one a request for a score
\* in capitals, and the other two the user prompts.
C15_Witness ==
    /\ Parsed
    /\ Len(session.messages) = 3
    /\ \A i \in 1..3 : session.messages[i].msg_type = "USER"
    /\ session.messages[2].content = Some(TextScore)
    /\ session.user_prompts = <<session.messages[1], session.messages[3]>>

\* The timestamps of a list of messages.
TimestampsOf(msgs) == {msgs[i].timestamp : i \in 1..Len(msgs)}

\* ts is the least timestamp of msgs, and absent exactly when msgs is empty.
IsFirstTimestamp(ts, msgs) ==
    IF msgs = <<>> THEN ts = None
    ELSE /\ ts # None
         /\ ts[1] \in TimestampsOf(msgs)
         /\ \A t \in TimestampsOf(msgs) : ts[1] <= t

\* The assistant messages of msgs that are no sidechain messages, in the
\* order of msgs.
RECURSIVE ResponsesAmong(_)
ResponsesAmong(msgs) ==
    IF msgs = <<>> THEN <<>>
    ELSE (IF Head(msgs).msg_type = "ASSISTANT" /\ ~Head(msgs).is_sidechain
          THEN <<Head(msgs)>> ELSE <<>>)
             \o ResponsesAmong(Tail(msgs))

\* C16: assistant_responses is the Assistant messages that are no sidechain
\* messages; first_user_ts is the least timestamp of the user prompts and
\* first_assistant_ts the least of the assistant responses, each absent
\* exactly when there is none; so neither is the timestamp of a sidechain or
\* filtered-out message unless a counted message shares it.
C16_ResponsesAndFirstTimestamps ==
    Parsed =>
        /\ session.assistant_responses = ResponsesAmong(session.messages)
        /\ IsFirstTimestamp(session.first_user_ts, PromptsAmong(session.messages))
        /\ IsFirstTimestamp(session.first_assistant_ts, ResponsesAmong(session.messages))

\* C16 witness: the earliest message is a sidechain reply at 0 and the only
\* user message a sidechain message; first_assistant_ts is that of the later
\* reply at 12 and first_user_ts is absent.
C16_Witness ==
    /\ Parsed
    /\ Len(session.messages) = 3
    /\ session.messages[1].msg_type = "ASSISTANT"
    /\ session.messages[1].is_sidechain
    /\ session.messages[1].timestamp = 0
    /\ session.messages[2].msg_type = "USER"
    /\ session.messages[2].is_sidechain
    /\ session.assistant_responses = <<session.messages[3]>>
    /\ session.first_assistant_ts = Some(12)
    /\ session.first_user_ts = None

\* A line that is a user or assistant record with a parseable timestamp.
KeptRecord(line) ==
    /\ line.json = "object"
    /\ line.type \in {"user", "assistant"}
    /\ line.timestamp.kind = "iso"

\* The positions, among the parts of a record's content, of the tool uses
\* named Write, Edit or search_replace with a file path.
CodeToolUses(line) ==
    IF line.message.content.kind # "list" THEN {}
    ELSE LET parts == line.message.content.parts
         IN  { k \in 1..Len(parts) :
                 /\ parts[k].type = "tool_use"
                 /\ parts[k].name \in {"Write", "Edit", "search_replace"}
                 /\ parts[k].input.file_path # <<>> }

\* The number of such tool uses in the kept records among the first n lines.
RECURSIVE KeptToolUses(_, _)
KeptToolUses(lines, n) ==
    IF n = 0 THEN 0
    ELSE KeptToolUses(lines, n - 1)
             + (IF KeptRecord(lines[n]) THEN Cardinality(CodeToolUses(lines[n])) ELSE 0)

\* C18: every message of an assembled session is of type User or Assistant
\* and has the timestamp of a user or assistant record with a parseable
\* timestamp; there is one message per such record and none for a record of
\* another kind or without a parseable timestamp, whose tool uses give no
\* code operation either.
C18_OnlyTimedUserAssistantRecords ==
    Parsed =>
        /\ \A i \in 1..Len(session.messages) :
              LET m == session.messages[i] IN
              /\ m.msg_type \in {"USER", "ASSISTANT"}
              /\ \E k \in 1..Len(records) :
                    /\ KeptRecord(records[k])
                    /\ records[k].timestamp.sec = m.timestamp
                    /\ (records[k].type = "user") = (m.msg_type = "USER")
        /\ Len(session.messages) =
              Cardinality({k \in 1..Len(records) : KeptRecord(records[k])})
        /\ Len(session.code_operations) = KeptToolUses(records, Len(records))

\* C18 witness: a summary record and an assistant record with an unparseable
\* timestamp, both with a Write tool use, and one assistant record that is
\* kept; the session has one message and one code operation.
C18_Witness ==
    /\ Parsed
    /\ Len(records) = 3
    /\ \E k \in 1..3 : records[k].type = "summary" /\ CodeToolUses(records[k]) # {}
    /\ \E k \in 1..3 : /\ records[k].type = "assistant"
                        /\ records[k].timestamp.kind = "invalid"
                        /\ CodeToolUses(records[k]) # {}
    /\ Len(session.messages) = 1
    /\ Len(session.code_operations) = 1

\* The text a tool use writes: its `content`, or its `new_string` when it
\* has no content.
WrittenText(part) ==
    IF part.input.content # <<>> THEN part.input.content ELSE part.input.new_string

\* The number of newline-delimited lines of a text, 0 for the empty text.
LineCount(text) ==
    IF text = <<>> THEN 0
    ELSE 1 + Cardinality({i \in 1..Len(text) : text[i] = "\n"})

\* The path, text, line count and timestamp the session file calls for in
\* the code operation of part j of line k.
ExpectedOperation(k, j) ==
    LET part == records[k].message.content.parts[j]
    IN  [line |-> k, part |-> j,
         file_path |-> part.input.file_path,
         content   |-> WrittenText(part),
         lines     |-> LineCount(WrittenText(part)),
         timestamp |-> records[k].timestamp.sec]

\* One for each tool use of CodeToolUses in a kept record.
CalledFor ==
    UNION { { ExpectedOperation(k, j) : j \in CodeToolUses(records[k]) } :
              k \in {k \in 1..Len(records) : KeptRecord(records[k])} }

\* What the claim says of a code operation.
OperationFacts(op) ==
    [file_path |-> op.file_path, content |-> op.content, lines |-> op.lines,
     timestamp |-> op.timestamp]

RECURSIVE SumOf(_)
SumOf(S) ==
    IF S = {} THEN 0
    ELSE LET e == CHOOSE e \in S : TRUE IN e.lines + SumOf(S \ {e})

\* C19: code_operations holds exactly one operation per tool use named
\* Write, Edit or search_replace with a non-empty file path in a kept
\* record, with that tool use's path, text and line count and its message's
\* timestamp, and none for another tool use; total_lines is the sum of their
\* line counts; a line count is the number of newline-delimited lines of the
\* text, and 0 for an empty text.
C19_CodeOperationsFromToolUses ==
    Parsed =>
        LET ops == session.code_operations IN
        /\ Len(ops) = Cardinality(CalledFor)
        /\ \A f \in {OperationFacts(e) : e \in CalledFor} :
              Cardinality({i \in 1..Len(ops) : OperationFacts(ops[i]) = f})
                  = Cardinality({e \in CalledFor : OperationFacts(e) = f})
        /\ session.total_lines = SumOf(CalledFor)

\* C19 witness: a reply with a Bash tool use and a Write of two lines, an
\* Edit of three lines given as new_string and a Write without a path: two
\* code operations and five lines.
C19_Witness ==
    /\ Parsed
    /\ Len(records) = 3
    /\ \E k \in 1..3 : /\ KeptRecord(records[k])
                        /\ Len(records[k].message.content.parts) = 2
                        /\ records[k].message.content.parts[1].name = "Bash"
    /\ \E k \in 1..3 : /\ KeptRecord(records[k])
                        /\ records[k].message.content.parts[1].name = "Write"
                        /\ records[k].message.content.parts[1].input.file_path = <<>>
    /\ Len(session.code_operations) = 2
    /\ session.code_operations[1].tool_type = "EDIT"
    /\ session.code_operations[1].lines = 3
    /\ session.code_operations[2].lines = 2
    /\ session.total_lines = 5

\* C20: evaluate_session leaves the SessionData as it was given, every field
\* of it; and whatever the two overrides are, the prompt-count, total-time
\* and code-size results are those of the call without overrides, the
\* first-completion result that of the call with the same first_completed
\* and no completion_rate, and the task-completion result that of the call
\* with the same completion_rate and no first_completed.
C20_SessionUntouchedResultsIndependent ==
    [][ pc = "parsed" /\ pc' = "evaluated" =>
          LET plain == evaluate_session(session, scoring_config, None, None)
              gated == evaluate_session(session, scoring_config, first_completed', None)
              rated == evaluate_session(session, scoring_config, None, completion_rate')
          IN  /\ session' = session
              /\ SubSeq(results', 3, 5) = SubSeq(plain, 3, 5)
              /\ results'[1] = gated[1]
              /\ results'[6] = rated[6] ]_vars

\* C20 witness: a session with a sidechain message, a code operation and
\* two user prompts, scored with the gate closed by first_completed = False,
\* still equal to what parse_session_file returned.
C20_Witness ==
    /\ Evaluated
    /\ first_completed = Some(FALSE)
    /\ completion_rate = Some(FromInt(50))
    /\ Len(session.messages) = 3
    /\ \E i \in 1..3 : session.messages[i].is_sidechain
    /\ session.code_operations # <<>>
    /\ Len(session.user_prompts) = 2
    /\ session = parse_session_file(AssembledRecords)

\* The scores of the six results, in the order of the result list.
Scores == [i \in 1..Len(results) |-> results[i].score]

NoOverrides == first_completed = None /\ completion_rate = None

\* C21 as stated: evaluate_session on a session without messages and without
\* overrides returns the scores 1 (first completion), 0 (first-time latency,
\* raw value none), 0 (prompt count), 1 (total reasoning time), 1 (code
\* volume) and 1 (task completion).
C21_Original ==
    (Evaluated /\ NoOverrides /\ session.messages = <<>>)
        => /\ Scores = <<One, Zero, Zero, One, One, One>>
           /\ FirstTime.raw_value = None

\* C21: evaluate_session on a session without messages and without overrides
\* (an empty log, or one whose every line is discarded) returns six results
\* with the scores 1 (first completion), 0 (first-time latency, raw value
\* none), 0 (prompt count), 0 (total reasoning time, raw value 0), 1 (code
\* volume) and 1 (task completion).
C21_EmptySessionScores ==
    (Evaluated /\ NoOverrides /\ session.messages = <<>>)
        => /\ Scores = <<One, Zero, Zero, Zero, One, One>>
           /\ FirstTime.raw_value = None
           /\ TotalTime.raw_value = Some(Zero)

\* A log of three lines, every one of them discarded, has been evaluated.
C21_Witness ==
    /\ pc = "reported"
    /\ NoOverrides
    /\ Len(records) = 3
    /\ session.messages = <<>>
    /\ Scores = <<One, Zero, Zero, Zero, One, One>>

\* C22: when the session file cannot be found or cannot be read, the
\* evaluate command ends in a failure and never goes on to evaluate a
\* session and produce a score report.
C22_NoReportWithoutReadableFile ==
    pc = "reported" => session_file = "readable"

\* The elements of a list that carry the timestamp t, in the list's order.
AtTime(list, t) == SelectSeq(list, LAMBDA x : x.timestamp = t)

TimesOf(list) == { list[i].timestamp : i \in 1..Len(list) }

\* C23: messages that carry equal timestamps are, in session.messages, in
\* the order in which their records were read (the primary file first, then
\* the agent file, each in file order); the same holds of the code operations
\* of equal timestamps in session.code_operations.
C23_EqualTimestampsKeepReadOrder ==
    Parsed =>
        /\ \A t \in TimesOf(session.messages) :
               AtTime(session.messages, t) = AtTime(MessagesOf(AssembledRecords), t)
        /\ \A t \in TimesOf(session.code_operations) :
               AtTime(session.code_operations, t)
                   = AtTime(CodeOperationsOf(AssembledRecords), t)

\* The primary file's reply at second 5 and the agent file's reply at second 5
\* are both in the session, the primary one first, after a later record was
\* read before them.
C23_Witness ==
    /\ Parsed
    /\ include_agents
    /\ Len(records) = 2
    /\ records[1] = Record("user", 10, Str(TextAdd), FALSE)
    /\ Len(session.messages) >= 3
    /\ session.messages[1].timestamp = 5
    /\ session.messages[2].timestamp = 5
    /\ ~session.messages[1].is_sidechain
    /\ session.messages[2].is_sidechain
    /\ Len(session.code_operations) >= 2
    /\ session.code_operations[1].timestamp = 5
    /\ session.code_operations[2].timestamp = 5
    /\ session.code_operations[1].tool_type = "WRITE"
    /\ session.code_operations[2].tool_type = "EDIT"

\* The sum of the line counts of a list of code operations.
LinesOf(ops) == SumOf({ [at |-> i, lines |-> ops[i].lines] : i \in 1..Len(ops) })

\* C24: a session is seen by evaluate_session and generate_report only as
\* parse_session_file returns it, and then its lists are complete (one
\* element per message and code operation of the records) and sorted, and
\* its derived fields are those of these final lists: the user prompts and
\* assistant responses in the order of messages, the two first timestamps,
\* and the sum of the line counts; until then no result has been computed
\* from the session, which is as its constructor left it.
C24_DerivedFieldsOfFinalLists ==
    /\ Parsed =>
          /\ Len(session.messages) = Len(MessagesOf(AssembledRecords))
          /\ Len(session.code_operations) = Len(CodeOperationsOf(AssembledRecords))
          /\ NonDecreasing(session.messages)
          /\ NonDecreasing(session.code_operations)
          /\ session.user_prompts = PromptsAmong(session.messages)
          /\ session.assistant_responses = ResponsesAmong(session.messages)
          /\ IsFirstTimestamp(session.first_user_ts, session.user_prompts)
          /\ IsFirstTimestamp(session.first_assistant_ts, session.assistant_responses)
          /\ session.total_lines = LinesOf(session.code_operations)
    /\ ~Parsed => session = EmptySession /\ results = <<>>

\* The replies of the primary file were read in the order 20, 5 and the
\* agent file adds code; the session's responses are in the order 5, 20 and
\* its lines are those of the three code operations.
C24_Witness ==
    /\ Parsed
    /\ include_agents
    /\ records = << Record("assistant", 20, EditThreeLines, FALSE),
                    Record("assistant", 5, WriteTwoLines, FALSE) >>
    /\ Len(session.code_operations) = 3
    /\ Len(session.assistant_responses) = 2
    /\ session.assistant_responses[1].timestamp = 5
    /\ session.assistant_responses[2].timestamp = 20
    /\ session.first_assistant_ts = Some(5)
    /\ session.total_lines > 5

\* The number of kept records among the lines of a file.
KeptAmong(lines) == Cardinality({k \in 1..Len(lines) : KeptRecord(lines[k])})

\* The first record of the agent file carries the session's id.
AgentMatches ==
    /\ agent_records # <<>>
    /\ agent_records[1].json = "object"
    /\ agent_records[1].sessionId = SessionId

\* The first line of the agent file cannot be read as text or is not JSON.
AgentFirstLineUnusable ==
    /\ agent_records # <<>>
    /\ agent_records[1].json \in {"invalid", "undecodable"}

\* C25: with agent inclusion disabled the session holds the messages and
\* code operations of the session file only; with it enabled the agent file
\* adds its own exactly when its first record carries the session's id; and
\* assembly does not fail on an agent file whose first line cannot be read
\* or is not valid JSON.
C25_AgentFileIncludedBySessionId ==
    /\ Parsed =>
          LET included == include_agents /\ AgentMatches
          IN  /\ Len(session.messages)
                    = KeptAmong(records) + (IF included THEN KeptAmong(agent_records) ELSE 0)
              /\ Len(session.code_operations)
                    = KeptToolUses(records, Len(records))
                        + (IF included
                           THEN KeptToolUses(agent_records, Len(agent_records)) ELSE 0)
    /\ (include_agents /\ AgentFirstLineUnusable) => pc # "raised"

\* The positions of the parts of the given types, in part order.
PartsOfType(parts, types) ==
    SelectSeq([i \in 1..Len(parts) |-> i], LAMBDA i : parts[i].type \in types)

\* What a part gives to the text: a text part its text, a tool_result part
\* the placeholder with at most the first 50 characters of its content.
PieceOf(part) ==
    IF part.type = "text" THEN part.text
    ELSE <<"[", "t", "o", "o", "l", "_", "r", "e", "s", "u", "l", "t", ":", " ">>
            \o [i \in 1..(IF Len(part.content) > 50 THEN 50 ELSE Len(part.content))
                   |-> part.content[i]]
            \o <<"]">>

\* The pieces of the first n of the given positions, a newline between two.
RECURSIVE JoinedPieces(_, _, _)
JoinedPieces(parts, at, n) ==
    IF n = 1 THEN PieceOf(parts[at[1]])
    ELSE JoinedPieces(parts, at, n - 1) \o <<"\n">> \o PieceOf(parts[at[n]])

\* What the claim says of the message m built from the record line.
ContentFacts(line, m) ==
    LET content == line.message.content IN
    IF content.kind = "str"
    THEN /\ m.content = Some(content.text)
         /\ ~m.is_tool_result
         /\ m.tool_uses = <<>>
    ELSE LET parts == content.parts
             shown == PartsOfType(parts, {"text", "tool_result"})
             used == PartsOfType(parts, {"tool_use"})
         IN  /\ m.content = IF shown = <<>> THEN None
                            ELSE Some(JoinedPieces(parts, shown, Len(shown)))
             /\ Len(m.tool_uses) = Len(used)
             /\ \A j \in 1..Len(used) : m.tool_uses[j].name = parts[used[j]].name
             /\ m.is_tool_result = (PartsOfType(parts, {"tool_result"}) # <<>>)

\* C26: the text of a message with structured content is the newline-join,
\* in part order, of its text parts and of one placeholder per tool_result
\* part with the first 50 characters of that part's content, thinking parts
\* adding nothing; it has one tool use per tool_use part, in order;
\* is_tool_result holds exactly when there is a tool_result part, and such a
\* user message is no user prompt; a str content is the text as it is, with
\* is_tool_result false.
C26_MessageContentFromParts ==
    Parsed =>
        /\ \A i \in 1..Len(session.messages) :
              \E k \in 1..Len(records) :
                  /\ records[k].timestamp.sec = session.messages[i].timestamp
                  /\ ContentFacts(records[k], session.messages[i])
        /\ \A i \in 1..Len(session.user_prompts) : ~session.user_prompts[i].is_tool_result
        /\ \A k \in 1..Len(records) :
              (/\ records[k].type = "user"
               /\ records[k].message.content.kind = "list"
               /\ PartsOfType(records[k].message.content.parts, {"tool_result"}) # <<>>)
                  => \A i \in 1..Len(session.user_prompts) :
                        session.user_prompts[i].timestamp # records[k].timestamp.sec

\* A user message of a text part and a tool_result part of 60 characters: its
\* text is "hi", a newline and the placeholder with 50 of them, and it is no
\* user prompt; the reply with a thinking part, two text parts and two tool
\* uses has the two texts and the two tool uses; the reply with a thinking
\* part only has no text.
C26_Witness ==
    /\ Parsed
    /\ Len(session.messages) = 3
    /\ session.messages[1].msg_type = "USER"
    /\ session.messages[1].is_tool_result
    /\ session.messages[1].content
          = Some(<<"h", "i", "\n">>
                   \o <<"[", "t", "o", "o", "l", "_", "r", "e", "s", "u", "l", "t", ":", " ">>
                   \o [i \in 1..50 |-> "a"] \o <<"]">>)
    /\ session.user_prompts = <<>>
    /\ session.messages[2].content = Some(<<"o", "k", "\n">> \o TextFix)
    /\ Len(session.messages[2].tool_uses) = 2
    /\ session.messages[2].tool_uses[1].name = "Bash"
    /\ session.messages[2].tool_uses[2].name = "Write"
    /\ session.messages[3].content = None
    /\ ~session.messages[3].is_tool_result

\* The number of columns a text takes: one per character and one more per
\* double-width character.
WidthOf(text) == Len(text) + Cardinality({i \in 1..Len(text) : text[i] \in WideChars})

Blanks(n) == [i \in 1..n |-> " "]

\* The rows of a table text: what stands between two line ends.
RowsOf(text) ==
    LET ends == {0} \cup {i \in 1..Len(text) : text[i] = "\n"} \cup {Len(text) + 1}
    IN  { SubSeq(text, a + 1, (CHOOSE b \in ends : b > a /\ \A c \in ends : c > a => b <= c) - 1) :
            a \in ends \ {Len(text) + 1} }

\* C27: pad_text(text, width, align) returns a text of exactly `width`
\* columns: the longest prefix of text that fits in them, whole characters
\* only, with blanks after it (left), before it (right) or on both sides
\* (center); and every row of the table to_table builds takes the same 62
\* columns.
C27_PadTextFillsTheColumn ==
    /\ pad_result # None =>
          LET out == pad_result[1]
              text == pad_args.text
              width == pad_args.width
          IN  /\ WidthOf(out) = width
              /\ \E n \in 0..Len(text) :
                    LET prefix == SubSeq(text, 1, n)
                        room == width - WidthOf(prefix)
                    IN  /\ room >= 0
                        /\ n < Len(text) => WidthOf(SubSeq(text, 1, n + 1)) > width
                        /\ \E before \in 0..room :
                              /\ out = Blanks(before) \o prefix \o Blanks(room - before)
                              /\ pad_args.align = "left" => before = 0
                              /\ pad_args.align = "right" => before = room
    /\ table # None => \A row \in RowsOf(table[1]) : WidthOf(row) = 62

\* Two double-width characters were put in three columns, to the right: one
\* of them and a blank before it; and a table was built of a report whose
\* name, detail and path end on a double-width character across the edge of
\* their columns.
C27_Witness ==
    /\ pad_args = [text |-> <<"u5ea6", "u5ea6">>, width |-> 3, align |-> "right"]
    /\ pad_result = Some(<<" ", "u5ea6">>)
    /\ pc = "printed"
    /\ table # None
    /\ Len(report.results) = 2
    /\ Cardinality(RowsOf(table[1])) >= 6

\* C28: whatever evaluate_session calls the process has made, with whatever
\* overrides, SCORING_CONFIG is as the module defines it, and a call without
\* overrides returns the six results of a first call on the session; its
\* task completion is 100 % with score 1.
C28_OverridesDoNotLeak ==
    /\ scoring_config = SCORING_CONFIG
    /\ (Evaluated /\ NoOverrides) =>
          /\ results = evaluate_session(session, SCORING_CONFIG, None, None)
          /\ TaskCompletion.raw_value = Some(FromInt(100))
          /\ TaskCompletion.score = One

\* The process has evaluated with a completion rate of 50 and first_completed
\* false, and then the same session with no override: task completion is
\* back at score 1.
C28_Witness ==
    /\ pc = "evaluated"
    /\ Len(calls) = 2
    /\ calls[1] = [first_completed |-> Some(FALSE), completion_rate |-> Some(FromInt(50))]
    /\ calls[2] = [first_completed |-> None, completion_rate |-> None]
    /\ Len(session.messages) = 1
    /\ TaskCompletion.score = One
    /\ scoring_config = SCORING_CONFIG

\* How many times x stands in a list.
CountIn(list, x) == Cardinality({i \in 1..Len(list) : list[i] = x})

\* The lines of the files that are assembled: the session file, and the
\* agent file when it is included.
IncludedLines ==
    records \o (IF include_agents /\ AgentMatches THEN agent_records ELSE <<>>)

\* What a kept line and its message share.
SameRecord(line, m) ==
    /\ m.uuid = line.uuid
    /\ m.timestamp = line.timestamp.sec
    /\ (m.msg_type = "USER") = (line.type = "user")
    /\ m.is_sidechain = line.isSidechain

\* C29: session.messages holds one message per kept user or assistant
\* record of the session file and of the included agent file, as many times
\* as the record stands in them (a record in both files gives two messages,
\* whatever its uuid), and is the list of the messages built from the records
\* in another order.
C29_AssemblyConservesRecords ==
    Parsed =>
        /\ Len(session.messages) = KeptAmong(IncludedLines)
        /\ \A k \in 1..Len(IncludedLines) :
              KeptRecord(IncludedLines[k]) =>
                  Cardinality({i \in 1..Len(session.messages) :
                                  SameRecord(IncludedLines[k], session.messages[i])})
                    = Cardinality({j \in 1..Len(IncludedLines) :
                                      /\ KeptRecord(IncludedLines[j])
                                      /\ IncludedLines[j] = IncludedLines[k]})
        /\ \A i \in 1..Len(session.messages) :
              CountIn(session.messages, session.messages[i])
                  = CountIn(MessagesOf(AssembledRecords), session.messages[i])

\* The record of uuid u1 stands in the session file and, first, in the agent
\* file, after a later record in each; the session has it twice, before the
\* two others.
C29_Witness ==
    /\ Parsed
    /\ include_agents
    /\ Len(records) = 2
    /\ records[2] = SharedRecord
    /\ Len(agent_records) = 2
    /\ agent_records[1] = SharedRecord
    /\ Len(session.messages) = 4
    /\ CountIn(session.messages, MessageOf(SharedRecord)) = 2
    /\ session.messages[1].uuid = "u3"
    /\ session.messages[4].uuid = "u2"

\* The kept lines that are sidechain or user records and hold a code tool use.
OffChainWriters ==
    { k \in 1..Len(records) :
        /\ KeptRecord(records[k])
        /\ records[k].isSidechain \/ records[k].type = "user"
        /\ CodeToolUses(records[k]) # {} }

InList(list, x) == \E i \in 1..Len(list) : list[i] = x

\* The message is that of one of the kept lines of OffChainWriters.
FromOffChainWriter(m) == \E k \in OffChainWriters : SameRecord(records[k], m)

\* What the claim says of the code such tool uses give: a code operation per
\* tool use, lines that total_lines counts, and the code-size score of that
\* total.
OffChainCodeCounts ==
    /\ Parsed =>
          /\ \A k \in OffChainWriters : \A j \in CodeToolUses(records[k]) :
                \E i \in 1..Len(session.code_operations) :
                    OperationFacts(session.code_operations[i])
                        = OperationFacts(ExpectedOperation(k, j))
          /\ session.total_lines = SumOf(CalledFor)
    /\ Evaluated =>
          LET n == SumOf(CalledFor)
          IN  /\ CodeSize.raw_value = Some(FromInt(n))
              /\ CodeSize.score = IF n <= 100 THEN One ELSE Rat(100, n)

\* C30 as stated: a Write, Edit or search_replace tool use in a sidechain
\* message or in a message of type User gives a code operation whose lines
\* total_lines and the code-size score count, while that message is neither
\* a user prompt nor an assistant response.
C30_Original ==
    /\ OffChainCodeCounts
    /\ Parsed =>
          \A i \in 1..Len(session.messages) :
              FromOffChainWriter(session.messages[i]) =>
                  /\ ~InList(session.user_prompts, session.messages[i])
                  /\ ~InList(session.assistant_responses, session.messages[i])

\* C30: a Write, Edit or search_replace tool use with a path in a sidechain
\* message or in a message of type User gives a code operation all the same;
\* total_lines is the sum of the lines of every such tool use of every kept
\* record and the code-size score is that of this total; a sidechain message
\* is neither a user prompt nor an assistant response and a message of type
\* User is no assistant response, but a message of type User of the main
\* chain that holds such a tool use and no tool_result is a user prompt; the
\* two first timestamps are those of the prompts and responses that remain.
C30_SidechainCodeCounts ==
    /\ OffChainCodeCounts
    /\ Parsed =>
          /\ \A i \in 1..Len(session.messages) :
                LET m == session.messages[i] IN
                /\ m.is_sidechain => /\ ~InList(session.user_prompts, m)
                                     /\ ~InList(session.assistant_responses, m)
                /\ m.msg_type = "USER" => ~InList(session.assistant_responses, m)
                /\ (/\ FromOffChainWriter(m)
                    /\ m.msg_type = "USER"
                    /\ ~m.is_sidechain
                    /\ ~m.is_tool_result) => InList(session.user_prompts, m)
          /\ IsFirstTimestamp(session.first_user_ts, PromptsAmong(session.messages))
          /\ IsFirstTimestamp(session.first_assistant_ts,
                              ResponsesAmong(session.messages))

\* A user message of the main chain at second 1 holds a search_replace of 3
\* lines, a sidechain user message at second 2 writes 120 lines and a
\* sidechain reply at second 5 edits 150: the session has three code
\* operations and 273 lines, which the score 100/273 counts; the first
\* message is its one user prompt, it has no response and no first response
\* timestamp.
C30_Witness ==
    /\ Evaluated
    /\ Len(session.messages) = 3
    /\ Cardinality(OffChainWriters) = 3
    /\ Len(session.code_operations) = 3
    /\ session.total_lines = 273
    /\ CodeSize.score = Rat(100, 273)
    /\ session.user_prompts = <<session.messages[1]>>
    /\ session.first_user_ts = Some(1)
    /\ session.assistant_responses = <<>>
    /\ session.first_assistant_ts = None

=============================================================================
